---- MODULE Spec2Model ----
(***************************************************************************)
(* Verification model of the Applied Motion ST motor driver                *)
(* (viam-appliedmotion, package st).                                       *)
(*                                                                         *)
(* Two layers are modelled, with three specifications:                     *)
(*   SpecWire  the transport session (comms.send) at byte level: framing,  *)
(*             the per-session lock, short writes, read errors, partial    *)
(*             reads;                                                      *)
(*   SpecMove  one GoFor/GoTo at command level, with every extra map,      *)
(*             transport faults and cancellation: the override snapshot,   *)
(*             the wait loop, restore;                                     *)
(*   Spec      the operations that share the driver, running concurrently: *)
(*             two movers, IsMoving/IsPowered/Stop, Reconfigure and Close, *)
(*             with the coarse lock and the per-session lock.              *)
(***************************************************************************)
EXTENDS Integers, Sequences, FiniteSets, TLC

\* ------------------------------------------------------------------ bounds
\* sends started on the byte-level transport session, over all callers
MaxSends == 3
\* stream faults (short write, read error) injected at byte level
MaxWireFaults == 1

\* --------------------------------------------------------- wire constants
\* sendBuffer[0], sendBuffer[1] and the terminator (comms.go:61,62,66)
PRE0 == 0
PRE1 == 7
CR == 13

None == "none"

VARIABLES
    \* ---- byte-level transport session (SpecWire)
    wmu,        \* comms.mu: the caller holding it, or None
    wpc,        \* per caller: position inside send
    wcmd,       \* per caller: the command string of the current send
    wreq,       \* per caller: ghost id of the current send
    wres,       \* per caller: result of the last finished send
    wsends,     \* sends started so far; the next one's ghost id is wsends + 1
    devRx,      \* bytes the device has received and not yet parsed
    rd,         \* bytes the device has answered, readable from the handle
    wlog,       \* ghost: the stream accesses in order
    wfaults,    \* stream faults injected so far
    \* ---- motion controller (Spec)
    mu,         \* st.mu, the coarse lock: the thread holding it, or None
    comm,       \* st.comm: the current session, NoComm when nil
    handle,     \* per session: comms.handle is "unopened", "open" or "closed"
    cmu,        \* per session: comms.mu, the thread holding it, or None
    pc,         \* per thread: position inside the operation it runs
    args,       \* per thread: the arguments of the operation it runs
    loc,        \* per thread: the operation's local variables
    snd,        \* per thread: the comms.send round trip in progress
    ret,        \* per thread: what the last operation returned
    cancelled,  \* per thread: the caller's ctx is done
    dev,        \* the controller: its registers and motion state
    cfg,        \* st's configured fields (limits, stepsPerRev)
    log,        \* ghost, per thread: commands the operation issued, in order
    ghost,      \* ghost, per thread: facts about the operation in progress
    calls,      \* per thread: operations started
    faults,     \* transport faults injected so far
    extraIn,    \* the extra map the callers of this run pass to GoFor/GoTo
    callIn,     \* per mover: the rpm and revolutions it passes to GoFor/GoTo
    quota,      \* per thread: the operations it may start in this run
    confIn      \* the configurations the owner passes to newMotor/Reconfigure

wireVars == <<wmu, wpc, wcmd, wreq, wres, wsends, devRx, rd, wlog, wfaults>>

motionVars == <<mu, comm, handle, cmu, pc, args, loc, snd, ret, cancelled, dev, cfg,
                log, ghost, calls, faults>>

vars == <<wmu, wpc, wcmd, wreq, wres, wsends, devRx, rd, wlog, wfaults,
          mu, comm, handle, cmu, pc, args, loc, snd, ret, cancelled, dev, cfg,
          log, ghost, calls, faults, extraIn, callIn, quota, confIn>>

\* what the actions of one layer leave alone
restOfWire == <<motionVars, extraIn, callIn, quota, confIn>>
restOfMotion == <<wireVars, extraIn, callIn, quota, confIn>>

\* ================================================================ SpecWire
Callers == {"a", "b"}

\* the commands the controller knows, as sequences of characters (code
\* points): "AC"
DevCmds == { <<65, 67>> }

\* the command strings send is called with: those, and the one-character
\* string U+00E9 that a DoCommand can pass
WireCmds == DevCmds \cup { <<233>> }

\* the number of bytes of a character in a Go string (UTF-8)
Utf8Len(v) == IF v < 128 THEN 1 ELSE IF v < 2048 THEN 2 ELSE IF v < 65536 THEN 3 ELSE 4

\* len(command) up to its k-th character: the byte index of the next one
RECURSIVE ByteIndex(_, _)
ByteIndex(cmd, k) == IF k = 0 THEN 0 ELSE ByteIndex(cmd, k - 1) + Utf8Len(cmd[k])

ByteLen(cmd) == ByteIndex(cmd, Len(cmd))

\* the payloads "%" (acknowledged) and "?" (rejected)
AckText == <<37>>
NakText == <<63>>

\* a byte on the stream: its value b and, as ghost, the request it belongs to
Byte(v, r) == [b |-> v, req |-> r]

Vals(s) == [i \in 1..Len(s) |-> s[i].b]

\* comms.send, lines 60-66: a zeroed buffer of 3+len(command) bytes gets
\* 0x00 0x07, then for each character v at byte index i of the command
\* byte(v) at i+2, then 0x0D at the end
sendBuffer(cmd, r) ==
    LET n == 3 + ByteLen(cmd)
        at(j) == {k \in 1..Len(cmd) : ByteIndex(cmd, k - 1) + 3 = j}
    IN  [j \in 1..n |->
            Byte(IF j = 1 THEN PRE0
                 ELSE IF j = 2 THEN PRE1
                 ELSE IF j = n THEN CR
                 ELSE IF at(j) # {} THEN cmd[CHOOSE k \in at(j) : TRUE] % 256
                 ELSE 0, r)]

\* readBuffer := make([]byte, 1024): bytes past nRead are zero
readBufferAt(got, i) == IF i >= 1 /\ i <= Len(got) THEN got[i].b ELSE 0

\* comms.send, line 84: the framing check on the bytes of one Read
framingOk(got) ==
    /\ readBufferAt(got, 1) = PRE0
    /\ readBufferAt(got, 2) = PRE1
    /\ readBufferAt(got, Len(got)) = CR

\* comms.send, line 88: readBuffer[2:nRead-1]
retString(got) == SubSeq(got, 3, Len(got) - 1)

\* the device: position of the first CR in what it received, 0 when none
FirstCR(s) ==
    IF \E i \in 1..Len(s) : s[i].b = CR
    THEN CHOOSE i \in 1..Len(s) : s[i].b = CR /\ \A j \in 1..(i-1) : s[j].b # CR
    ELSE 0

\* the device's answer to one received packet, attributed to the request
\* whose terminator closed it: an acknowledgement when the packet is a whole
\* framed command, "?" otherwise
DeviceReply(pkt) ==
    LET r == pkt[Len(pkt)].req
        whole == \E c \in DevCmds : Vals(pkt) = Vals(sendBuffer(c, r))
    IN  IF whole
        THEN sendBuffer(AckText, r)
        ELSE sendBuffer(NakText, r)

\* the result of a send, and as ghost the bytes it wrote and the bytes it read
NoResult == [ok |-> FALSE, payload |-> <<>>, set |-> FALSE, wrote |-> <<>>, got |-> <<>>]

InitWire ==
    /\ wmu = None
    /\ wpc = [c \in Callers |-> "idle"]
    /\ wcmd = [c \in Callers |-> <<>>]
    /\ wreq = [c \in Callers |-> 0]
    /\ wres = [c \in Callers |-> NoResult]
    /\ wsends = 0
    /\ devRx = <<>>
    /\ rd = <<>>
    /\ wlog = <<>>
    /\ wfaults = 0

\* a caller enters send(command) and blocks on s.mu.Lock()
sendCall(c) ==
    /\ wpc[c] \in {"idle", "done"}
    /\ wsends < MaxSends
    /\ \E cmd \in WireCmds :
         /\ wcmd' = [wcmd EXCEPT ![c] = cmd]
         /\ wreq' = [wreq EXCEPT ![c] = wsends + 1]
    /\ wsends' = wsends + 1
    /\ wpc' = [wpc EXCEPT ![c] = "lock"]
    /\ UNCHANGED restOfWire
    /\ UNCHANGED <<wmu, wres, devRx, rd, wlog, wfaults>>

\* send without its mutex: the variant C1 is checked against
sendLock_noMutex(c) ==
    /\ wpc[c] = "lock"
    /\ wmu' = c
    /\ wpc' = [wpc EXCEPT ![c] = "write"]
    /\ UNCHANGED restOfWire
    /\ UNCHANGED <<wcmd, wreq, wres, wsends, devRx, rd, wlog, wfaults>>

\* comms.send, line 51: s.mu.Lock()
sendLock(c) ==
    /\ wpc[c] = "lock"
    /\ wmu = None
    /\ wmu' = c
    /\ wpc' = [wpc EXCEPT ![c] = "write"]
    /\ UNCHANGED restOfWire
    /\ UNCHANGED <<wcmd, wreq, wres, wsends, devRx, rd, wlog, wfaults>>

\* the deferred s.mu.Unlock() of a returning send
Unlocked(c) == IF wmu = c THEN None ELSE wmu

\* comms.send, lines 69-75: the whole packet is written
sendWrite(c) ==
    /\ wpc[c] = "write"
    /\ devRx' = devRx \o sendBuffer(wcmd[c], wreq[c])
    /\ wlog' = Append(wlog, [who |-> c, what |-> "w", req |-> wreq[c]])
    /\ wres' = [wres EXCEPT ![c] = [NoResult EXCEPT !.wrote = Vals(sendBuffer(wcmd[c], wreq[c]))]]
    /\ wpc' = [wpc EXCEPT ![c] = "read"]
    /\ UNCHANGED restOfWire
    /\ UNCHANGED <<wmu, wcmd, wreq, wsends, rd, wfaults>>

\* send that goes on to read the response after a failed or short Write: the
\* variant C19 is checked against
sendWriteShort_thenRead(c) ==
    /\ wpc[c] = "write"
    /\ wfaults < MaxWireFaults
    /\ \E n \in 0..(ByteLen(wcmd[c]) + 2) :
         /\ devRx' = devRx \o SubSeq(sendBuffer(wcmd[c], wreq[c]), 1, n)
         /\ wres' = [wres EXCEPT ![c] =
                        [NoResult EXCEPT !.wrote = Vals(SubSeq(sendBuffer(wcmd[c], wreq[c]), 1, n))]]
    /\ wlog' = Append(wlog, [who |-> c, what |-> "w", req |-> wreq[c]])
    /\ wfaults' = wfaults + 1
    /\ wpc' = [wpc EXCEPT ![c] = "read"]
    /\ UNCHANGED restOfWire
    /\ UNCHANGED <<wmu, wcmd, wreq, wsends, rd>>

\* comms.send, lines 69-75: Write fails or is short; send returns the error
sendWriteShort(c) ==
    /\ wpc[c] = "write"
    /\ wfaults < MaxWireFaults
    /\ \E n \in 0..(ByteLen(wcmd[c]) + 2) :
         /\ devRx' = devRx \o SubSeq(sendBuffer(wcmd[c], wreq[c]), 1, n)
         /\ wres' = [wres EXCEPT ![c] =
                        [NoResult EXCEPT !.set = TRUE,
                                         !.wrote = Vals(SubSeq(sendBuffer(wcmd[c], wreq[c]), 1, n))]]
    /\ wlog' = Append(wlog, [who |-> c, what |-> "w", req |-> wreq[c]])
    /\ wfaults' = wfaults + 1
    /\ wmu' = Unlocked(c)
    /\ wpc' = [wpc EXCEPT ![c] = "done"]
    /\ UNCHANGED restOfWire
    /\ UNCHANGED <<wcmd, wreq, wsends, rd>>

\* comms.send, lines 77-91: one Read of whatever part of the stream has
\* arrived (io.Reader may return fewer bytes than are pending), the framing
\* check, and the return of the payload
sendRead(c) ==
    /\ wpc[c] = "read"
    /\ \E n \in 1..Len(rd) :
         LET got == SubSeq(rd, 1, n)
         IN  /\ rd' = SubSeq(rd, n + 1, Len(rd))
             /\ wres' = [wres EXCEPT ![c] =
                            IF framingOk(got)
                            THEN [@ EXCEPT !.ok = TRUE, !.payload = retString(got), !.set = TRUE,
                                           !.got = Vals(got)]
                            ELSE [@ EXCEPT !.set = TRUE, !.got = Vals(got)]]
    /\ wlog' = Append(wlog, [who |-> c, what |-> "r", req |-> wreq[c]])
    /\ wmu' = Unlocked(c)
    /\ wpc' = [wpc EXCEPT ![c] = "done"]
    /\ UNCHANGED restOfWire
    /\ UNCHANGED <<wcmd, wreq, wsends, devRx, wfaults>>

\* comms.send, lines 77-80: Read returns an error
sendReadError(c) ==
    /\ wpc[c] = "read"
    /\ wfaults < MaxWireFaults
    /\ wfaults' = wfaults + 1
    /\ wlog' = Append(wlog, [who |-> c, what |-> "r", req |-> wreq[c]])
    /\ wres' = [wres EXCEPT ![c].set = TRUE]
    /\ wmu' = Unlocked(c)
    /\ wpc' = [wpc EXCEPT ![c] = "done"]
    /\ UNCHANGED restOfWire
    /\ UNCHANGED <<wcmd, wreq, wsends, devRx, rd>>

\* the controller parses one packet (up to the first CR) and answers it
DeviceRespond ==
    /\ FirstCR(devRx) > 0
    /\ LET n == FirstCR(devRx)
       IN  /\ rd' = rd \o DeviceReply(SubSeq(devRx, 1, n))
           /\ devRx' = SubSeq(devRx, n + 1, Len(devRx))
    /\ UNCHANGED restOfWire
    /\ UNCHANGED <<wmu, wpc, wcmd, wreq, wres, wsends, wlog, wfaults>>

\* ==================================================================== Spec
\* ------------------------------------------------------------------ bounds
\* operations each thread starts
MaxCalls == 1
\* operations started, over all threads
MaxOps == 3
\* BS/SC polling rounds one wait performs
MaxPolls == 2
\* transport faults injected (write error, read error, rejected command)
MaxFaults == 1
\* transport sessions ever opened
MaxSessions == 2

\* ------------------------------------------------------------- constants
\* s.comm = nil (st.go:87)
NoComm == 0
\* isBufferEmpty: b == 63 (st.go:237)
EmptyDepth == 63
\* IsMoving: (status[1]>>4)&1 (st.go:338)
MovingBit == 4
\* IsPowered: status[1] & 1 (st.go:355)
PoweredBit == 0
\* rpm / 60 (st.go:306)
SecPerMin == 60

Movers == {"m1", "m2"}
Poller == "q"
Admin == "r"
Threads == Movers \cup {Poller, Admin}
Sessions == 1..MaxSessions

\* Values (rev/s, rev/s^2) are fixed-point numbers in units of 1/100000, so
\* that the four decimals of "%.4f" are a real rounding.
Unit == 10 ^ 5

\* ---------------------------------------------------------------- errors
\* An error value is the sequence of its parts; nil is the empty sequence.
Nil == <<>>
Err(what, cmd) == << [e |-> what, c |-> cmd] >>

\* multierr.Combine: every non-nil error, in order
Combine(e1, e2) == e1 \o e2

\* ------------------------------------------------------------- commands
Cmd(n) == [name |-> n, has |-> FALSE, arg |-> 0]
CmdV(n, v) == [name |-> n, has |-> TRUE, arg |-> v]

\* fmt.Sprintf("%.4f", value): value rounded to four decimals (half away
\* from zero), in units of 1/100000
Fmt4(v) ==
    IF v >= 0 THEN ((v + 5) \div 10) * 10 ELSE -(((-v) + 5) \div 10) * 10

\* comms.store, line 97: the command text fmt.Sprintf("%s%.4f", command, value)
storeText(command, value) == CmdV(command, Fmt4(value))

\* --------------------------------------------------------- the controller
\* texts a controller may answer SC with, as character codes:
\*   "SC=0009", "SC=0011", "SC=0009{63", "SC=09", "SC=09{"
\*   "SC=00091", "SC=000900{", "SC=00G9", "SC0009", "{SC=0009"
\*   "SC=", "SC={", "SC=009{", "SC=001b"
StatusTexts ==
    { <<83, 67, 61, 48, 48, 48, 57>>,
      <<83, 67, 61, 48, 48, 49, 49>>,
      <<83, 67, 61, 48, 48, 48, 57, 123, 54, 51>>,
      <<83, 67, 61, 48, 57>>,
      <<83, 67, 61, 48, 57, 123>>,
      <<83, 67, 61, 48, 48, 48, 57, 49>>,
      <<83, 67, 61, 48, 48, 48, 57, 48, 48, 123>>,
      <<83, 67, 61, 48, 48, 71, 57>>,
      <<83, 67, 48, 48, 48, 57>>,
      <<123, 83, 67, 61, 48, 48, 48, 57>>,
      <<83, 67, 61>>,
      <<83, 67, 61, 123>>,
      <<83, 67, 61, 48, 48, 57, 123>>,
      <<83, 67, 61, 48, 48, 49, 98>> }

Reply(kind, n, val) == [k |-> kind, name |-> n, v |-> val]

\* the status word the controller reports: bit 0 powered, bit 3 in
\* position, bit 4 moving
StatusWord(d) == 1 + (IF d.moving THEN 16 ELSE 8)

\* the controller's position counter is a signed 32-bit word
Min32 == -2147483647 - 1
Max32 == 2147483647

\* a + b in 32-bit two's complement, computed without leaving the range
Add32(a, b) ==
    IF b > 0 /\ a > Max32 - b THEN Min32 + ((a - (Max32 - b)) - 1)
    ELSE IF b < 0 /\ a < Min32 - b THEN Max32 - (((Min32 - b) - a) - 1)
    ELSE a + b

\* the hexadecimal digits of a 16-bit half word, most significant first
Hex4(h) == << (h \div 4096) % 16, (h \div 256) % 16, (h \div 16) % 16, h % 16 >>

\* the eight hexadecimal digits the controller reports a signed 32-bit
\* position with (two's complement)
Hex8(p) ==
    LET lo == p % 65536
        hi == ((p - lo) \div 65536) % 65536
    IN  Hex4(hi) \o Hex4(lo)

\* what the controller does with one received command, and its answer:
\* "%" executed, "*" queued, "?" rejected, or the queried value
DevHandle(d, c) ==
    CASE c.name = "AC" /\ ~c.has -> [dev |-> d, resp |-> Reply("val", "AC", d.AC)]
      [] c.name = "DE" /\ ~c.has -> [dev |-> d, resp |-> Reply("val", "DE", d.DE)]
      [] c.name = "AC" /\ c.has  -> [dev |-> [d EXCEPT !.AC = c.arg], resp |-> Reply("%", "", 0)]
      [] c.name = "DE" /\ c.has  -> [dev |-> [d EXCEPT !.DE = c.arg], resp |-> Reply("%", "", 0)]
      [] c.name = "VE" /\ c.has  -> [dev |-> d, resp |-> Reply("*", "", 0)]
      [] c.name = "DI" /\ c.has  -> [dev |-> [d EXCEPT !.DI = c.arg], resp |-> Reply("%", "", 0)]
      [] c.name \in {"EP", "SP"} /\ c.has
                                 -> [dev |-> [d EXCEPT !.pos = c.arg], resp |-> Reply("%", "", 0)]
      [] c.name = "IP" /\ ~c.has -> [dev |-> d, resp |-> Reply("val", "IP", Hex8(d.pos))]
      [] c.name \in {"FL", "FP"} -> [dev |-> [d EXCEPT !.queued = TRUE, !.move = c.name],
                                     resp |-> Reply("*", "", 0)]
      [] c.name = "SK"           -> [dev |-> [d EXCEPT !.queued = FALSE, !.moving = FALSE],
                                     resp |-> Reply("%", "", 0)]
      [] c.name = "BS"           -> [dev |-> d,
                                     resp |-> Reply("val", "BS", IF d.queued THEN EmptyDepth - 1
                                                                 ELSE EmptyDepth)]
      [] c.name = "SC"           -> [dev |-> d, resp |-> Reply("val", "SC", StatusWord(d))]
      [] OTHER                   -> [dev |-> d, resp |-> Reply("%", "", 0)]

\* the queued move starts executing
DevStart ==
    /\ dev.queued
    /\ ~dev.moving
    /\ dev' = [dev EXCEPT !.queued = FALSE, !.moving = TRUE]
    /\ UNCHANGED restOfMotion
    /\ UNCHANGED <<mu, comm, handle, cmu, pc, args, loc, snd, ret, cancelled, cfg,
                   log, ghost, calls, faults>>

\* the executing move reaches its target: DI steps further for FL, the
\* position DI for FP
DevFinish ==
    /\ dev.moving
    /\ dev' = [dev EXCEPT !.moving = FALSE,
                          !.pos = IF dev.move = "FL" THEN Add32(@, dev.DI) ELSE dev.DI]
    /\ UNCHANGED restOfMotion
    /\ UNCHANGED <<mu, comm, handle, cmu, pc, args, loc, snd, ret, cancelled, cfg,
                   log, ghost, calls, faults>>

\* ------------------------------------------------------ the send round trip
\* (dl and mv are ghost: the command reached the controller and was executed,
\* and the motor was moving when it was)
NoSend == [phase |-> "idle", cmd |-> Cmd(""), sess |-> NoComm, ok |-> FALSE,
           resp |-> Reply("", "", 0), dl |-> FALSE, mv |-> FALSE]

\* s.comm.send(ctx, c) as st calls it: s.comm is read, and send entered on it;
\* on a nil s.comm the call dereferences nil
Issue(c) ==
    [phase |-> IF comm = NoComm THEN "nil" ELSE "write",
     cmd |-> c, sess |-> comm, ok |-> FALSE, resp |-> Reply("", "", 0), dl |-> FALSE,
     mv |-> FALSE]

Returned(t) == snd[t].phase = "ret"

\* comms.send, lines 51-75: s.mu.Lock(), then the packet is written; the
\* controller receives the command and acts on it. A closed handle fails
\* the Write.
commSendWrite(t) ==
    /\ snd[t].phase = "write"
    /\ cmu[snd[t].sess] = None
    /\ IF handle[snd[t].sess] = "open"
       THEN LET h == DevHandle(dev, snd[t].cmd)
            IN  /\ dev' = h.dev
                /\ snd' = [snd EXCEPT ![t].phase = "read", ![t].resp = h.resp,
                                      ![t].dl = TRUE, ![t].mv = dev.moving]
                /\ cmu' = [cmu EXCEPT ![snd[t].sess] = t]
                /\ UNCHANGED ghost
       ELSE /\ snd' = [snd EXCEPT ![t].phase = "ret", ![t].ok = FALSE]
            /\ ghost' = [ghost EXCEPT ![t].failed = Append(@, Len(log[t]))]
            /\ UNCHANGED <<dev, cmu>>
    /\ UNCHANGED restOfMotion
    /\ UNCHANGED <<mu, comm, handle, pc, args, loc, ret, cancelled, cfg,
                   log, calls, faults>>

\* comms.send, lines 69-75: Write returns an error or a short count, the
\* command does not reach the controller, and send returns the error
commWriteFault(t) ==
    /\ snd[t].phase = "write"
    /\ cmu[snd[t].sess] = None
    /\ handle[snd[t].sess] = "open"
    /\ faults < MaxFaults
    /\ faults' = faults + 1
    /\ snd' = [snd EXCEPT ![t].phase = "ret", ![t].ok = FALSE]
    /\ ghost' = [ghost EXCEPT ![t].failed = Append(@, Len(log[t]))]
    /\ UNCHANGED restOfMotion
    /\ UNCHANGED <<mu, comm, handle, cmu, pc, args, loc, ret, cancelled, dev, cfg,
                   log, calls>>

\* the controller rejects the command it received and answers "?"
commRejected(t) ==
    /\ snd[t].phase = "write"
    /\ cmu[snd[t].sess] = None
    /\ handle[snd[t].sess] = "open"
    /\ faults < MaxFaults
    /\ faults' = faults + 1
    /\ snd' = [snd EXCEPT ![t].phase = "read", ![t].resp = Reply("?", "", 0)]
    /\ cmu' = [cmu EXCEPT ![snd[t].sess] = t]
    /\ ghost' = [ghost EXCEPT ![t].rejected = Append(@, Len(log[t]))]
    /\ UNCHANGED restOfMotion
    /\ UNCHANGED <<mu, comm, handle, pc, args, loc, ret, cancelled, dev, cfg,
                   log, calls>>

\* the controller answers an SC with some other text than "SC=" and four
\* digits
commOddStatus(t) ==
    /\ snd[t].phase = "write"
    /\ snd[t].cmd.name = "SC"
    /\ cmu[snd[t].sess] = None
    /\ handle[snd[t].sess] = "open"
    /\ faults < MaxFaults
    /\ faults' = faults + 1
    /\ \E txt \in StatusTexts :
         snd' = [snd EXCEPT ![t].phase = "read", ![t].resp = Reply("text", "SC", txt),
                            ![t].dl = TRUE, ![t].mv = dev.moving]
    /\ cmu' = [cmu EXCEPT ![snd[t].sess] = t]
    /\ UNCHANGED restOfMotion
    /\ UNCHANGED <<mu, comm, handle, pc, args, loc, ret, cancelled, dev, cfg,
                   log, ghost, calls>>

\* comms.send, lines 77-91: the response is read and unframed, and the
\* deferred s.mu.Unlock() runs. A handle closed meanwhile fails the Read.
commSendRead(t) ==
    /\ snd[t].phase = "read"
    /\ snd' = [snd EXCEPT ![t].phase = "ret", ![t].ok = (handle[snd[t].sess] = "open")]
    /\ cmu' = [cmu EXCEPT ![snd[t].sess] = None]
    /\ IF handle[snd[t].sess] = "open"
       THEN UNCHANGED ghost
       ELSE ghost' = [ghost EXCEPT ![t].failed = Append(@, Len(log[t]))]
    /\ UNCHANGED restOfMotion
    /\ UNCHANGED <<mu, comm, handle, pc, args, loc, ret, cancelled, dev, cfg,
                   log, calls, faults>>

\* comms.send, lines 77-86: Read returns an error, or bytes that fail the
\* framing check; send returns the error
commReadFault(t) ==
    /\ snd[t].phase = "read"
    /\ handle[snd[t].sess] = "open"
    /\ faults < MaxFaults
    /\ faults' = faults + 1
    /\ snd' = [snd EXCEPT ![t].phase = "ret", ![t].ok = FALSE]
    /\ cmu' = [cmu EXCEPT ![snd[t].sess] = None]
    /\ ghost' = [ghost EXCEPT ![t].failed = Append(@, Len(log[t]))]
    /\ UNCHANGED restOfMotion
    /\ UNCHANGED <<mu, comm, handle, pc, args, loc, ret, cancelled, dev, cfg,
                   log, calls>>

\* a store that takes only "%" for an acknowledgement: the variant C17 is
\* checked against
storeErr_percentOnly(s) ==
    IF ~s.ok THEN Err("io", s.cmd.name)
    ELSE IF s.resp.k # "%" THEN Err("nonack", s.cmd.name)
    ELSE Nil

\* comms.store, lines 94-107, on a finished round trip: nil when the send
\* succeeded and the payload is "%" or "*"
storeErr(s) ==
    IF ~s.ok THEN Err("io", s.cmd.name)
    ELSE IF s.resp.k # "%" /\ s.resp.k # "*" THEN Err("nonack", s.cmd.name)
    ELSE Nil

\* the error of a plain send on a finished round trip
sendErr(s) == IF s.ok THEN Nil ELSE Err("io", s.cmd.name)

\* ------------------------------------------------------------ operations
Ret(kind, e, b) == [kind |-> kind, err |-> e, val |-> b]
NoRet == Ret("none", Nil, FALSE)

\* an extras entry: absent, present with a non-float64 value, or a float64
Absent == [kind |-> "absent", v |-> 0]
Malformed == [kind |-> "bad", v |-> 0]
F64(x) == [kind |-> "f64", v |-> x]

\* the inputs the operations are called with in Spec and SpecMove
ExtraInputs == {Absent, Malformed, F64(10 * Unit), F64(20 * Unit + 4)}
RpmInputs == {600}
RevInputs == {Unit}
DevAccels == {0, 100 * Unit}

NoLimit == [min |-> 0, max |-> 0]
\* protocol names, as the characters of the configured string
ProtoIp == <<105, 112>>
ProtoCan == <<99, 97, 110>>
ProtoRs485 == <<114, 115, 52, 56, 53>>
ProtoRs232 == <<114, 115, 50, 51, 50>>

\* a configuration: the fields of Config and, as openOk, whether the dial or
\* open of its uri succeeds
Conf(p, a, o) ==
    [stepsPerRev |-> 2, accelLimits |-> NoLimit, decelLimits |-> NoLimit,
     rpmLimits |-> [min |-> 0, max |-> 900], defaultAccel |-> a, defaultDecel |-> a,
     openOk |-> o, protocol |-> p]

ConfInputs == { Conf(ProtoIp, a, o) : a \in {0, 100 * Unit}, o \in BOOLEAN }

\* the two override keys and the command of each (setOverrides, lines 54-55)
Keys == {"acc", "dec"}
KeyCmd(k) == IF k = "acc" THEN "AC" ELSE "DE"

NoExtra == [acc |-> Absent, dec |-> Absent]
NoArgs == [op |-> "", cmd |-> "", rpm |-> 0, revs |-> 0, extra |-> NoExtra, offset |-> 0,
           conf |-> CHOOSE c \in ConfInputs : TRUE, command |-> Cmd(""), isString |-> TRUE]

\* the locals of a move: the (flipped, bounded) arguments, setOverrides' err
\* and snapshot os, the response replaceValue keeps, and the wait's state
Loc0 == [rpm |-> 0, revs |-> 0, extra |-> NoExtra,
         err |-> Nil, os |-> [acc |-> 0, dec |-> 0], q |-> Reply("", "", 0),
         bufEmpty |-> FALSE, waitErr |-> Nil, acErr |-> Nil, deErr |-> Nil,
         polls |-> 0]

\* ghost facts about the operation in progress: the move-start command was
\* acknowledged, restore was entered, SK commands the wait issued, the ctx
\* was cancelled during the wait, the select saw the cancellation, the
\* override stores that reached the controller, the registers, session and
\* handle state when the coarse lock was taken, the latest BS and SC replies
\* of the wait with the iteration of each, the controller's motion when
\* it answered a status query, and the three limits, the operations that
\* had returned and the controller's position when the coarse lock was
\* taken, and the response Position decoded
Ghost0 == [started |-> FALSE, restoreCalled |-> FALSE, sk |-> 0,
           cancelInWait |-> FALSE, sawCancel |-> FALSE,
           wrote |-> [acc |-> FALSE, dec |-> FALSE], prior |-> [acc |-> 0, dec |-> 0],
           sess |-> NoComm, hstate |-> "", lastBS |-> 0, bsIter |-> 0,
           lastSC |-> 0, scIter |-> 0, devMoving |-> FALSE,
           limits |-> <<NoLimit, NoLimit, NoLimit>>, seen |-> {}, pos0 |-> 0,
           reply |-> Reply("", "", 0), oks |-> <<>>,
           failed |-> <<>>, rejected |-> <<>>]

\* Bound without its test for a zero value: the variant C12 is checked
\* against
Bound_clampsZero(l, value) ==
    IF l.min # 0 /\ value < l.min THEN l.min
    ELSE IF l.max # 0 /\ value > l.max THEN l.max
    ELSE value

\* overrides.go, lines 119-136
Bound(l, value) ==
    IF value = 0 THEN value
    ELSE IF l.min # 0 /\ value < l.min THEN l.min
    ELSE IF l.max # 0 /\ value > l.max THEN l.max
    ELSE value

\* configuredMove, lines 287-296: a float64 extras entry is replaced by its
\* bounded value
BoundExtra(l, x) == IF x.kind = "f64" THEN F64(Bound(l, x.v)) ELSE x

\* an integer conversion that rounds down: the variant C15 is checked
\* against
Trunc_floor(a, b) == a \div b

\* integer conversion of a quotient, truncating toward zero
Trunc(a, b) == IF a >= 0 THEN a \div b ELSE -((-a) \div b)

\* the deferred s.mu.Unlock() of an operation that holds the coarse lock
muReleased(t) == IF mu = t THEN None ELSE mu

\* the sum of f over the threads in S
RECURSIVE Sum(_, _)
Sum(f, S) == IF S = {} THEN 0 ELSE LET x == CHOOSE y \in S : TRUE IN f[x] + Sum(f, S \ {x})

\* ghost: the calls that have returned, each a thread and the number of its call
Finished ==
    UNION { {<<t, k>> : k \in 1..(IF pc[t] = "done" THEN calls[t] ELSE calls[t] - 1)} :
            t \in Threads }

CanCall(t) ==
    /\ pc[t] \in {"idle", "done"}
    /\ calls[t] < quota[t]
    /\ Sum(calls, Threads) < MaxOps

\* GoFor, line 247: the call is made and blocks on s.mu.Lock()
GoFor(t) ==
    /\ t \in Movers
    /\ CanCall(t)
    /\ args' = [args EXCEPT ![t] = [NoArgs EXCEPT !.op = "GoFor", !.cmd = "FL",
                                                   !.rpm = callIn[t].rpm, !.revs = callIn[t].revs,
                                                   !.extra = extraIn]]
    /\ pc' = [pc EXCEPT ![t] = "mv_lock"]
    /\ calls' = [calls EXCEPT ![t] = @ + 1]
    /\ loc' = [loc EXCEPT ![t] = Loc0]
    /\ log' = [log EXCEPT ![t] = <<>>]
    /\ ghost' = [ghost EXCEPT ![t] = Ghost0]
    /\ ret' = [ret EXCEPT ![t] = NoRet]
    /\ cancelled' = [cancelled EXCEPT ![t] = FALSE]
    /\ UNCHANGED restOfMotion
    /\ UNCHANGED <<mu, comm, handle, cmu, snd, dev, cfg, faults>>

\* GoTo, line 263: the call is made and blocks on s.mu.Lock()
GoTo(t) ==
    /\ t \in Movers
    /\ CanCall(t)
    /\ args' = [args EXCEPT ![t] = [NoArgs EXCEPT !.op = "GoTo", !.cmd = "FP",
                                                   !.rpm = callIn[t].rpm, !.revs = callIn[t].revs,
                                                   !.extra = extraIn]]
    /\ pc' = [pc EXCEPT ![t] = "mv_lock"]
    /\ calls' = [calls EXCEPT ![t] = @ + 1]
    /\ loc' = [loc EXCEPT ![t] = Loc0]
    /\ log' = [log EXCEPT ![t] = <<>>]
    /\ ghost' = [ghost EXCEPT ![t] = Ghost0]
    /\ ret' = [ret EXCEPT ![t] = NoRet]
    /\ cancelled' = [cancelled EXCEPT ![t] = FALSE]
    /\ UNCHANGED restOfMotion
    /\ UNCHANGED <<mu, comm, handle, cmu, snd, dev, cfg, faults>>

\* the caller's context is cancelled while the operation runs
Cancel(t) ==
    /\ t \in Movers
    /\ pc[t] \notin {"idle", "done"}
    /\ ~cancelled[t]
    /\ cancelled' = [cancelled EXCEPT ![t] = TRUE]
    /\ ghost' = [ghost EXCEPT ![t].cancelInWait =
                    (pc[t] \in {"wait_sel", "wait_bs", "wait_sc"})]
    /\ UNCHANGED restOfMotion
    /\ UNCHANGED <<mu, comm, handle, cmu, pc, args, loc, snd, ret, dev, cfg, log, calls, faults>>

\* the steps every operation's continuation shares: issue the next command
Send(t, c, next) ==
    /\ snd' = [snd EXCEPT ![t] = Issue(c)]
    /\ log' = [log EXCEPT ![t] = Append(@, c)]
    /\ pc' = [pc EXCEPT ![t] = next]

\* the operation returns r; its deferred unlock runs
Return(t, r) ==
    /\ ret' = [ret EXCEPT ![t] = r]
    /\ pc' = [pc EXCEPT ![t] = "done"]
    /\ snd' = [snd EXCEPT ![t] = NoSend]
    /\ mu' = muReleased(t)

ErrRet(e) == IF e = Nil THEN Ret("ok", Nil, FALSE) ELSE Ret("err", e, FALSE)

\* comms.send, line 51, entered on a nil s.comm: s.mu is dereferenced and
\* the goroutine panics; the deferred unlocks run as it unwinds
Panic(t) ==
    /\ snd[t].phase = "nil"
    /\ Return(t, Ret("panic", Nil, FALSE))
    /\ UNCHANGED restOfMotion
    /\ UNCHANGED <<comm, handle, cmu, args, loc, cancelled, dev, cfg, log, ghost, calls, faults>>

\* a move that does not wait for the coarse lock: the variant C8 is checked
\* against
MoveLock_noMutex(t) ==
    /\ pc[t] = "mv_lock"
    /\ mu' = t
    /\ loc' = [loc EXCEPT ![t].rpm = args[t].rpm, ![t].revs = args[t].revs,
                          ![t].extra = args[t].extra]
    /\ Send(t, Cmd("SJ"), "mv_sj")
    /\ ghost' = [ghost EXCEPT ![t].sess = comm,
                              ![t].hstate = IF comm = NoComm THEN "" ELSE handle[comm],
                              ![t].prior = [acc |-> dev.AC, dec |-> dev.DE],
                              ![t].limits = <<cfg.accelLimits, cfg.decelLimits, cfg.rpmLimits>>,
                              ![t].seen = Finished,
                              ![t].pos0 = dev.pos]
    /\ UNCHANGED restOfMotion
    /\ UNCHANGED <<comm, handle, cmu, args, ret, cancelled, dev, cfg, calls, faults>>

\* a GoFor that negates a negative rpm and keeps the distance: the variant
\* C11 is checked against
MoveLock_keepDistance(t) ==
    /\ pc[t] = "mv_lock"
    /\ mu = None
    /\ mu' = t
    /\ LET flip == args[t].op = "GoFor" /\ args[t].rpm < 0
       IN  loc' = [loc EXCEPT ![t].rpm = IF flip THEN -args[t].rpm ELSE args[t].rpm,
                              ![t].revs = args[t].revs,
                              ![t].extra = args[t].extra]
    /\ Send(t, Cmd("SJ"), "mv_sj")
    /\ ghost' = [ghost EXCEPT ![t].sess = comm,
                              ![t].hstate = IF comm = NoComm THEN "" ELSE handle[comm],
                              ![t].prior = [acc |-> dev.AC, dec |-> dev.DE],
                              ![t].limits = <<cfg.accelLimits, cfg.decelLimits, cfg.rpmLimits>>,
                              ![t].seen = Finished,
                              ![t].pos0 = dev.pos]
    /\ UNCHANGED restOfMotion
    /\ UNCHANGED <<comm, handle, cmu, args, ret, cancelled, dev, cfg, calls, faults>>

\* a move that tests its ctx when it has the lock and returns ctx.Err()
\* at once: the variant C36 is checked against
MoveLock_checksCtx(t) ==
    /\ pc[t] = "mv_lock"
    /\ mu = None
    /\ IF cancelled[t]
       THEN /\ Return(t, ErrRet(Err("cancelled", "")))
            /\ UNCHANGED <<loc, log, ghost>>
       ELSE /\ mu' = t
            /\ LET flip == args[t].op = "GoFor" /\ args[t].rpm < 0
               IN  loc' = [loc EXCEPT ![t].rpm = IF flip THEN -args[t].rpm ELSE args[t].rpm,
                                      ![t].revs = IF flip THEN -args[t].revs ELSE args[t].revs,
                                      ![t].extra = args[t].extra]
            /\ Send(t, Cmd("SJ"), "mv_sj")
            /\ ghost' = [ghost EXCEPT ![t].sess = comm,
                                      ![t].hstate = IF comm = NoComm THEN "" ELSE handle[comm],
                                      ![t].prior = [acc |-> dev.AC, dec |-> dev.DE],
                                      ![t].limits = <<cfg.accelLimits, cfg.decelLimits, cfg.rpmLimits>>,
                                      ![t].seen = Finished,
                                      ![t].pos0 = dev.pos]
            /\ UNCHANGED ret
    /\ UNCHANGED restOfMotion
    /\ UNCHANGED <<comm, handle, cmu, args, cancelled, dev, cfg, calls, faults>>

\* GoFor lines 248-260 / GoTo lines 264-274, and configuredMove line 283:
\* the coarse lock is taken, a negative rpm flips the direction of a GoFor,
\* and SJ is sent
MoveLock(t) ==
    /\ pc[t] = "mv_lock"
    /\ mu = None
    /\ mu' = t
    /\ LET flip == args[t].op = "GoFor" /\ args[t].rpm < 0
       IN  loc' = [loc EXCEPT ![t].rpm = IF flip THEN -args[t].rpm ELSE args[t].rpm,
                              ![t].revs = IF flip THEN -args[t].revs ELSE args[t].revs,
                              ![t].extra = args[t].extra]
    /\ Send(t, Cmd("SJ"), "mv_sj")
    /\ ghost' = [ghost EXCEPT ![t].sess = comm,
                              ![t].hstate = IF comm = NoComm THEN "" ELSE handle[comm],
                              ![t].prior = [acc |-> dev.AC, dec |-> dev.DE],
                              ![t].limits = <<cfg.accelLimits, cfg.decelLimits, cfg.rpmLimits>>,
                              ![t].seen = Finished,
                              ![t].pos0 = dev.pos]
    /\ UNCHANGED restOfMotion
    /\ UNCHANGED <<comm, handle, cmu, args, ret, cancelled, dev, cfg, calls, faults>>

\* configuredMove, lines 283-296: SJ failed and the move returns, or the
\* extras are bounded and setOverrides begins
MoveAfterSJ(t) ==
    /\ pc[t] = "mv_sj"
    /\ Returned(t)
    /\ IF ~snd[t].ok
       THEN /\ Return(t, ErrRet(sendErr(snd[t])))
            /\ UNCHANGED <<loc, log>>
       ELSE /\ loc' = [loc EXCEPT ![t].extra.acc = BoundExtra(cfg.accelLimits, @),
                                  ![t].extra.dec = BoundExtra(cfg.decelLimits, @)]
            /\ pc' = [pc EXCEPT ![t] = "ov_acc"]
            /\ snd' = [snd EXCEPT ![t] = NoSend]
            /\ UNCHANGED <<mu, ret, log>>
    /\ UNCHANGED restOfMotion
    /\ UNCHANGED <<comm, handle, cmu, args, cancelled, dev, cfg, ghost, calls, faults>>

\* ------------------------------------------------------------ setOverrides
\* the pc values of the override of key k
OvPc(k) == IF k = "acc" THEN "ov_acc" ELSE "ov_dec"
OvQueryPc(k) == IF k = "acc" THEN "ov_acc_q" ELSE "ov_dec_q"
OvStorePc(k) == IF k = "acc" THEN "ov_acc_s" ELSE "ov_dec_s"
AfterOv(k) == IF k = "acc" THEN "ov_dec" ELSE "mv_cfg"

\* setOverrides' closure store(key, command), lines 24-35: an absent key
\* yields 0.0, a non-float64 value adds an error and yields 0.0, a float64
\* starts replaceValue with the query of the current value
OverrideKey(t, k) ==
    /\ pc[t] = OvPc(k)
    /\ LET x == loc[t].extra[k]
       IN  CASE x.kind = "absent" ->
                  /\ loc' = [loc EXCEPT ![t].os[k] = 0]
                  /\ pc' = [pc EXCEPT ![t] = AfterOv(k)]
                  /\ UNCHANGED <<snd, log>>
             [] x.kind = "bad" ->
                  /\ loc' = [loc EXCEPT ![t].os[k] = 0,
                                        ![t].err = Combine(@, Err("malformed", k))]
                  /\ pc' = [pc EXCEPT ![t] = AfterOv(k)]
                  /\ UNCHANGED <<snd, log>>
             [] OTHER ->
                  /\ Send(t, Cmd(KeyCmd(k)), OvQueryPc(k))
                  /\ UNCHANGED loc
    /\ UNCHANGED restOfMotion
    /\ UNCHANGED <<mu, comm, handle, cmu, args, ret, cancelled, dev, cfg, ghost, calls, faults>>

\* replaceValue, lines 81-85: the query returned. On an error replaceValue
\* returns "" and the closure's response[:3] (line 37) slices past the end
\* of the empty string: the goroutine panics. Otherwise the new value is
\* stored.
OverrideQueried(t, k) ==
    /\ pc[t] = OvQueryPc(k)
    /\ Returned(t)
    /\ IF ~snd[t].ok
       THEN /\ Return(t, Ret("panic", Nil, FALSE))
            /\ UNCHANGED <<loc, log>>
       ELSE /\ loc' = [loc EXCEPT ![t].q = snd[t].resp]
            /\ Send(t, storeText(KeyCmd(k), loc[t].extra[k].v), OvStorePc(k))
            /\ UNCHANGED <<mu, ret>>
    /\ UNCHANGED restOfMotion
    /\ UNCHANGED <<comm, handle, cmu, args, cancelled, dev, cfg, ghost, calls, faults>>

\* a snapshot that forgets the old value: the variant C5 is checked against
oldValue_zero(q) == 0

\* the closure, line 45: strconv.ParseFloat(response[3:], 64)
oldValue(q) == q.v

\* the text of a response is shorter than three characters
ShortText(r) == r.k \in {"%", "*", "?"}

\* replaceValue, lines 85-88, and the closure, lines 36-50: the store
\* returned. On an error replaceValue returns "" and response[:3] panics, as
\* it does on a one-character response; a response that does not begin with
\* the command and "=" adds an error and yields 0.0; otherwise the old value
\* is parsed from the response.
OverrideStored(t, k) ==
    /\ pc[t] = OvStorePc(k)
    /\ Returned(t)
    /\ ghost' = [ghost EXCEPT ![t].wrote[k] = snd[t].dl]
    /\ IF storeErr(snd[t]) # Nil \/ ShortText(loc[t].q)
       THEN /\ Return(t, Ret("panic", Nil, FALSE))
            /\ UNCHANGED loc
       ELSE /\ IF loc[t].q.name # KeyCmd(k)
               THEN loc' = [loc EXCEPT ![t].os[k] = 0,
                                       ![t].err = Combine(@, Err("unexpected", k))]
               ELSE loc' = [loc EXCEPT ![t].os[k] = oldValue(loc[t].q)]
            /\ pc' = [pc EXCEPT ![t] = AfterOv(k)]
            /\ snd' = [snd EXCEPT ![t] = NoSend]
            /\ UNCHANGED <<mu, ret>>
    /\ UNCHANGED restOfMotion
    /\ UNCHANGED <<comm, handle, cmu, args, cancelled, dev, cfg, log, calls, faults>>

\* ---------------------------------------------------------- configuredMove
\* a move that sends the rpm it was given, unbounded: the variant C13 is
\* checked against
MoveConfigure_unbounded(t) ==
    /\ pc[t] = "mv_cfg"
    /\ IF loc[t].err # Nil
       THEN /\ Return(t, ErrRet(loc[t].err))
            /\ UNCHANGED <<loc, log>>
       ELSE /\ loc' = loc
            /\ Send(t, CmdV("DI", Trunc(loc[t].revs * cfg.stepsPerRev, Unit)), "mv_di")
            /\ UNCHANGED <<mu, ret>>
    /\ UNCHANGED restOfMotion
    /\ UNCHANGED <<comm, handle, cmu, args, cancelled, dev, cfg, ghost, calls, faults>>

\* configuredMove, lines 298-312: setOverrides' error ends the move;
\* otherwise rpm is bounded and DI<steps> is sent
MoveConfigure(t) ==
    /\ pc[t] = "mv_cfg"
    /\ IF loc[t].err # Nil
       THEN /\ Return(t, ErrRet(loc[t].err))
            /\ UNCHANGED <<loc, log>>
       ELSE /\ loc' = [loc EXCEPT ![t].rpm = Bound(cfg.rpmLimits, @)]
            /\ Send(t, CmdV("DI", Trunc(loc[t].revs * cfg.stepsPerRev, Unit)), "mv_di")
            /\ UNCHANGED <<mu, ret>>
    /\ UNCHANGED restOfMotion
    /\ UNCHANGED <<comm, handle, cmu, args, cancelled, dev, cfg, ghost, calls, faults>>

\* a move that starts before the velocity is stored: the variant C10 is
\* checked against
MoveAfterDI_startFirst(t) ==
    /\ pc[t] = "mv_di"
    /\ Returned(t)
    /\ Send(t, Cmd(args[t].cmd), "mv_ve")
    /\ UNCHANGED restOfMotion
    /\ UNCHANGED <<mu, ret, comm, handle, cmu, args, loc, cancelled, dev, cfg, ghost,
                   calls, faults>>

\* configuredMove, lines 310-317: DI returned; VE<rev/s> is stored
MoveAfterDI(t) ==
    /\ pc[t] = "mv_di"
    /\ Returned(t)
    /\ IF ~snd[t].ok
       THEN /\ Return(t, ErrRet(sendErr(snd[t])))
            /\ UNCHANGED log
       ELSE /\ Send(t, storeText("VE", (loc[t].rpm * Unit) \div SecPerMin), "mv_ve")
            /\ UNCHANGED <<mu, ret>>
    /\ UNCHANGED restOfMotion
    /\ UNCHANGED <<comm, handle, cmu, args, loc, cancelled, dev, cfg, ghost, calls, faults>>

\* configuredMove, lines 315-321: VE returned; the move-start command is sent
MoveAfterVE(t) ==
    /\ pc[t] = "mv_ve"
    /\ Returned(t)
    /\ IF storeErr(snd[t]) # Nil
       THEN /\ Return(t, ErrRet(storeErr(snd[t])))
            /\ UNCHANGED log
       ELSE /\ Send(t, Cmd(args[t].cmd), "mv_start")
            /\ UNCHANGED <<mu, ret>>
    /\ UNCHANGED restOfMotion
    /\ UNCHANGED <<comm, handle, cmu, args, loc, cancelled, dev, cfg, ghost, calls, faults>>

\* configuredMove, lines 319-322: the move-start command returned; the wait
\* for completion begins
MoveAfterStart(t) ==
    /\ pc[t] = "mv_start"
    /\ Returned(t)
    /\ IF ~snd[t].ok
       THEN /\ Return(t, ErrRet(sendErr(snd[t])))
            /\ UNCHANGED ghost
       ELSE /\ pc' = [pc EXCEPT ![t] = "wait_sel"]
            /\ snd' = [snd EXCEPT ![t] = NoSend]
            /\ ghost' = [ghost EXCEPT ![t].started = TRUE]
            /\ UNCHANGED <<mu, ret>>
    /\ UNCHANGED restOfMotion
    /\ UNCHANGED <<comm, handle, cmu, args, loc, cancelled, dev, cfg, log, calls, faults>>

\* a wait whose select never takes the Done case: the variant C30 is checked
\* against
WaitSelect_timerOnly(t) ==
    /\ pc[t] = "wait_sel"
    /\ loc[t].polls < MaxPolls
    /\ loc' = [loc EXCEPT ![t].polls = @ + 1]
    /\ Send(t, Cmd("BS"), "wait_bs")
    /\ UNCHANGED ghost
    /\ UNCHANGED restOfMotion
    /\ UNCHANGED <<mu, comm, handle, cmu, args, ret, cancelled, dev, cfg, calls, faults>>

\* a wait whose stop takes the coarse lock, as the operations outside a
\* move do: the variant C33 is checked against
WaitSelect_lockedStop(t) ==
    /\ pc[t] = "wait_sel"
    /\ IF cancelled[t]
       THEN /\ mu = None
            /\ Send(t, Cmd("SK"), "wait_sk")
            /\ ghost' = [ghost EXCEPT ![t].sk = @ + 1, ![t].sawCancel = TRUE]
            /\ UNCHANGED loc
       ELSE /\ loc[t].polls < MaxPolls
            /\ loc' = [loc EXCEPT ![t].polls = @ + 1]
            /\ Send(t, Cmd("BS"), "wait_bs")
            /\ UNCHANGED ghost
    /\ UNCHANGED restOfMotion
    /\ UNCHANGED <<mu, comm, handle, cmu, args, ret, cancelled, dev, cfg, calls, faults>>

\* a wait that returns the cancellation error without stopping the
\* hardware: the variant C32 is checked against
WaitSelect_noStop(t) ==
    /\ pc[t] = "wait_sel"
    /\ IF cancelled[t]
       THEN /\ loc' = [loc EXCEPT ![t].waitErr = Err("cancelled", "")]
            /\ pc' = [pc EXCEPT ![t] = "rs_acc"]
            /\ ghost' = [ghost EXCEPT ![t].sawCancel = TRUE]
            /\ UNCHANGED <<snd, log>>
       ELSE /\ loc[t].polls < MaxPolls
            /\ loc' = [loc EXCEPT ![t].polls = @ + 1]
            /\ Send(t, Cmd("BS"), "wait_bs")
            /\ UNCHANGED ghost
    /\ UNCHANGED restOfMotion
    /\ UNCHANGED <<mu, comm, handle, cmu, args, ret, cancelled, dev, cfg, calls, faults>>

\* ---------------------------------------------- waitForMoveCommandToComplete
\* lines 211-221: the select. A done ctx selects the first case, which calls
\* s.Stop with the background context (SK); otherwise the timer fires and
\* the buffer depth is read (BS)
WaitSelect(t) ==
    /\ pc[t] = "wait_sel"
    /\ IF cancelled[t]
       THEN /\ Send(t, Cmd("SK"), "wait_sk")
            /\ ghost' = [ghost EXCEPT ![t].sk = @ + 1, ![t].sawCancel = TRUE]
            /\ UNCHANGED loc
       ELSE /\ loc[t].polls < MaxPolls
            /\ loc' = [loc EXCEPT ![t].polls = @ + 1]
            /\ Send(t, Cmd("BS"), "wait_bs")
            /\ UNCHANGED ghost
    /\ UNCHANGED restOfMotion
    /\ UNCHANGED <<mu, comm, handle, cmu, args, ret, cancelled, dev, cfg, calls, faults>>

\* a wait that reports a cancelled move as complete: the variant C7 is
\* checked against
WaitStopped_silent(t) ==
    /\ pc[t] = "wait_sk"
    /\ Returned(t)
    /\ loc' = [loc EXCEPT ![t].waitErr = Nil]
    /\ pc' = [pc EXCEPT ![t] = "rs_acc"]
    /\ snd' = [snd EXCEPT ![t] = NoSend]
    /\ UNCHANGED restOfMotion
    /\ UNCHANGED <<mu, comm, handle, cmu, args, ret, cancelled, dev, cfg, log, ghost,
                   calls, faults>>

\* lines 217-218: Stop returned (its error is dropped); the wait returns
\* ctx.Err()
WaitStopped(t) ==
    /\ pc[t] = "wait_sk"
    /\ Returned(t)
    /\ loc' = [loc EXCEPT ![t].waitErr = Err("cancelled", "")]
    /\ pc' = [pc EXCEPT ![t] = "rs_acc"]
    /\ snd' = [snd EXCEPT ![t] = NoSend]
    /\ UNCHANGED restOfMotion
    /\ UNCHANGED <<mu, comm, handle, cmu, args, ret, cancelled, dev, cfg, log, ghost,
                   calls, faults>>

\* getBufferStatus, lines 185-207: the depth parsed from "BS=<n>"; a failed
\* send or a response without "=" is an error (-1 stands for no value)
getBufferStatus(s) ==
    IF ~s.ok THEN [v |-> -1, err |-> Err("io", "BS")]
    ELSE IF s.resp.k # "val" THEN [v |-> -1, err |-> Err("nodata", "BS")]
    ELSE [v |-> s.resp.v, err |-> Nil]

\* a buffer check that ignores the depth: the variant C6 is checked against
isBufferEmpty_always(s) ==
    [v |-> TRUE, err |-> getBufferStatus(s).err]

\* isBufferEmpty, lines 235-238
isBufferEmpty(s) ==
    [v |-> getBufferStatus(s).v = EmptyDepth, err |-> getBufferStatus(s).err]

\* F of the value of e, with e evaluated once however often F refers to it
Apply(F(_), e) == CHOOSE r \in {F(x) : x \in {e}} : TRUE

\* the characters of a hexadecimal digit as the controller writes it
HexChar(d) == IF d < 10 THEN 48 + d ELSE 55 + d

\* the response text of an SC round trip: "SC=" and the four digits of the
\* status word, a one-character answer, or the text a controller sent as is
payloadText(r) ==
    IF r.k = "text" THEN r.v
    ELSE IF r.k = "val" THEN <<83, 67, 61>> \o [i \in 1..4 |-> HexChar(Hex4(r.v)[i])]
    ELSE IF r.k = "%" THEN <<37>> ELSE IF r.k = "*" THEN <<42>> ELSE <<63>>

\* strings.Index(s, c) for a character c, counted from 1; 0 when absent
Index(s, c) ==
    IF \E i \in 1..Len(s) : s[i] = c
    THEN CHOOSE i \in 1..Len(s) : s[i] = c /\ \A j \in 1..(i - 1) : s[j] # c
    ELSE 0

\* encoding/hex fromHexChar: the value of a digit character, -1 for any other
fromHexChar(c) ==
    IF c >= 48 /\ c <= 57 THEN c - 48
    ELSE IF c >= 97 /\ c <= 102 THEN c - 87
    ELSE IF c >= 65 /\ c <= 70 THEN c - 55
    ELSE -1

\* hex.DecodeString: the bytes of a text of an even number of digits
DecodeString(s) ==
    IF Len(s) % 2 # 0 \/ \E i \in 1..Len(s) : fromHexChar(s[i]) = -1
    THEN [ok |-> FALSE, val |-> <<>>]
    ELSE [ok |-> TRUE,
          val |-> [i \in 1..(Len(s) \div 2) |->
                      16 * fromHexChar(s[2 * i - 1]) + fromHexChar(s[2 * i])]]

\* getStatus, lines 153-174, on the response text: the text after the first
\* "=" up to the first "{", or of four characters when there is no "{", is
\* decoded from hexadecimal and must be two bytes. The slice
\* resp[startIndex+1 : endIndex] panics when its bounds are out of range.
statusOf(resp) ==
    LET eq == Index(resp, 61)
        brace == Index(resp, 123)
        last == IF brace # 0 THEN brace - 1 ELSE eq + 4
        decoded(val) ==
            IF ~val.ok THEN [v |-> 0, err |-> Err("hex", "SC"), panic |-> FALSE]
            ELSE IF Len(val.val) # 2 THEN [v |-> 0, err |-> Err("length", "SC"), panic |-> FALSE]
            ELSE [v |-> 256 * val.val[1] + val.val[2], err |-> Nil, panic |-> FALSE]
    IN  IF eq = 0 THEN [v |-> 0, err |-> Err("nodata", "SC"), panic |-> FALSE]
        ELSE IF eq > last \/ last > Len(resp) THEN [v |-> 0, err |-> Nil, panic |-> TRUE]
        ELSE Apply(LAMBDA digits : Apply(decoded, DecodeString(digits)),
                   SubSeq(resp, eq + 1, last))

\* getStatus, lines 149-176: a failed send is its error; otherwise the status
\* word parsed from the response
getStatus(s) ==
    IF ~s.ok THEN [v |-> 0, err |-> Err("io", "SC"), panic |-> FALSE]
    ELSE Apply(statusOf, payloadText(s.resp))

\* bit n of status[1], the low byte of the status word
StatusBit(w, n) == (((w % 256) \div (2 ^ n)) % 2) = 1

\* IsMoving, lines 326-339, on a finished SC round trip
isMoving(s) ==
    Apply(LAMBDA st : [v |-> st.err = Nil /\ StatusBit(st.v, MovingBit),
                       err |-> st.err, panic |-> st.panic],
          getStatus(s))

\* IsPowered, lines 342-356, on a finished SC round trip
isPowered(s) ==
    Apply(LAMBDA st : [v |-> st.err = Nil /\ StatusBit(st.v, PoweredBit),
                       err |-> st.err, panic |-> st.panic],
          getStatus(s))

\* lines 221-224: BS returned; an error ends the wait, otherwise SC is sent
WaitAfterBS(t) ==
    /\ pc[t] = "wait_bs"
    /\ Returned(t)
    /\ LET b == isBufferEmpty(snd[t])
       IN  IF b.err # Nil
           THEN /\ loc' = [loc EXCEPT ![t].waitErr = b.err]
                /\ pc' = [pc EXCEPT ![t] = "rs_acc"]
                /\ snd' = [snd EXCEPT ![t] = NoSend]
                /\ UNCHANGED <<log, ghost>>
           ELSE /\ loc' = [loc EXCEPT ![t].bufEmpty = b.v]
                /\ Send(t, Cmd("SC"), "wait_sc")
                /\ ghost' = [ghost EXCEPT ![t].lastBS = snd[t].resp.v,
                                          ![t].bsIter = loc[t].polls]
    /\ UNCHANGED restOfMotion
    /\ UNCHANGED <<mu, comm, handle, cmu, args, ret, cancelled, dev, cfg, calls, faults>>

\* lines 224-231: SC returned; an error ends the wait, an empty buffer with
\* the moving bit clear ends it with nil, anything else loops
WaitAfterSC(t) ==
    /\ pc[t] = "wait_sc"
    /\ Returned(t)
    /\ ~isMoving(snd[t]).panic
    /\ LET m == isMoving(snd[t])
       IN  /\ IF m.err # Nil
              THEN /\ loc' = [loc EXCEPT ![t].waitErr = m.err]
                   /\ pc' = [pc EXCEPT ![t] = "rs_acc"]
              ELSE IF loc[t].bufEmpty /\ ~m.v
              THEN /\ loc' = [loc EXCEPT ![t].waitErr = Nil]
                   /\ pc' = [pc EXCEPT ![t] = "rs_acc"]
              ELSE /\ pc' = [pc EXCEPT ![t] = "wait_sel"]
                   /\ UNCHANGED loc
           /\ ghost' = [ghost EXCEPT ![t].lastSC = snd[t].resp.v,
                                     ![t].scIter = loc[t].polls]
    /\ snd' = [snd EXCEPT ![t] = NoSend]
    /\ UNCHANGED restOfMotion
    /\ UNCHANGED <<mu, comm, handle, cmu, args, ret, cancelled, dev, cfg, log, calls, faults>>

\* lines 224-225: getStatus panics inside the wait; the move unwinds
\* through the deferred s.mu.Unlock() without restore
WaitStatusPanic(t) ==
    /\ pc[t] = "wait_sc"
    /\ Returned(t)
    /\ isMoving(snd[t]).panic
    /\ Return(t, Ret("panic", Nil, FALSE))
    /\ ghost' = [ghost EXCEPT ![t].reply = snd[t].resp]
    /\ UNCHANGED restOfMotion
    /\ UNCHANGED <<comm, handle, cmu, args, loc, cancelled, dev, cfg, log, calls, faults>>

\* a restore that writes the acceleration back whether or not it was
\* captured: the variant C29 is checked against
RestoreAcc_always(t) ==
    /\ pc[t] = "rs_acc"
    /\ ghost' = [ghost EXCEPT ![t].restoreCalled = TRUE]
    /\ Send(t, storeText("AC", loc[t].os.acc), "rs_acc_s")
    /\ UNCHANGED restOfMotion
    /\ UNCHANGED <<mu, comm, handle, cmu, args, loc, ret, cancelled, dev, cfg, calls, faults>>

\* ------------------------------------------------------------------ restore
\* oldAcceleration.restore, lines 59-72, first argument of Combine: a zero
\* snapshot field sends nothing, a nonzero one is stored back with AC
RestoreAcc(t) ==
    /\ pc[t] = "rs_acc"
    /\ ghost' = [ghost EXCEPT ![t].restoreCalled = TRUE]
    /\ IF loc[t].os.acc = 0
       THEN /\ pc' = [pc EXCEPT ![t] = "rs_dec"]
            /\ UNCHANGED <<snd, log>>
       ELSE Send(t, storeText("AC", loc[t].os.acc), "rs_acc_s")
    /\ UNCHANGED restOfMotion
    /\ UNCHANGED <<mu, comm, handle, cmu, args, loc, ret, cancelled, dev, cfg, calls, faults>>

\* a restore that returns at the first write-back that fails: the variant
\* C28 is checked against
RestoredAcc_shortCircuit(t) ==
    /\ pc[t] = "rs_acc_s"
    /\ Returned(t)
    /\ loc' = [loc EXCEPT ![t].acErr = storeErr(snd[t])]
    /\ IF storeErr(snd[t]) # Nil
       THEN /\ Return(t, ErrRet(Combine(loc[t].waitErr, storeErr(snd[t]))))
       ELSE /\ pc' = [pc EXCEPT ![t] = "rs_dec"]
            /\ snd' = [snd EXCEPT ![t] = NoSend]
            /\ UNCHANGED <<mu, ret>>
    /\ UNCHANGED restOfMotion
    /\ UNCHANGED <<comm, handle, cmu, args, cancelled, dev, cfg, log, ghost,
                   calls, faults>>

\* the AC write-back returned; its error is kept
RestoredAcc(t) ==
    /\ pc[t] = "rs_acc_s"
    /\ Returned(t)
    /\ loc' = [loc EXCEPT ![t].acErr = storeErr(snd[t])]
    /\ pc' = [pc EXCEPT ![t] = "rs_dec"]
    /\ snd' = [snd EXCEPT ![t] = NoSend]
    /\ UNCHANGED restOfMotion
    /\ UNCHANGED <<mu, comm, handle, cmu, args, ret, cancelled, dev, cfg, log, ghost,
                   calls, faults>>

\* a move that drops restore's error: the variant C3 is checked against
moveResult_waitOnly(waitErr, acErr, deErr) == waitErr

\* the error configuredMove returns, line 322: the wait's error combined
\* with restore's (restore's own Combine of the AC and DE write-backs)
moveResult(waitErr, acErr, deErr) == Combine(waitErr, Combine(acErr, deErr))

\* a restore that writes the deceleration back even when the snapshot holds
\* 0: the variant C31 is checked against
RestoreDec_always(t) ==
    /\ pc[t] = "rs_dec"
    /\ Send(t, storeText("DE", loc[t].os.dec), "rs_dec_s")
    /\ UNCHANGED restOfMotion
    /\ UNCHANGED <<mu, ret>>
    /\ UNCHANGED restOfMotion
    /\ UNCHANGED <<comm, handle, cmu, args, loc, cancelled, dev, cfg, ghost, calls, faults>>

\* restore, second argument of Combine: as for AC, with DE; with a zero
\* field restore returns and so does the move
RestoreDec(t) ==
    /\ pc[t] = "rs_dec"
    /\ IF loc[t].os.dec = 0
       THEN /\ Return(t, ErrRet(moveResult(loc[t].waitErr, loc[t].acErr, Nil)))
            /\ UNCHANGED log
       ELSE /\ Send(t, storeText("DE", loc[t].os.dec), "rs_dec_s")
            /\ UNCHANGED <<mu, ret>>
    /\ UNCHANGED restOfMotion
    /\ UNCHANGED <<comm, handle, cmu, args, loc, cancelled, dev, cfg, ghost, calls, faults>>

\* the DE write-back returned; restore and the move return
RestoredDec(t) ==
    /\ pc[t] = "rs_dec_s"
    /\ Returned(t)
    /\ loc' = [loc EXCEPT ![t].deErr = storeErr(snd[t])]
    /\ Return(t, ErrRet(moveResult(loc[t].waitErr, loc[t].acErr, storeErr(snd[t]))))
    /\ UNCHANGED restOfMotion
    /\ UNCHANGED <<comm, handle, cmu, args, cancelled, dev, cfg, log, ghost, calls, faults>>

\* ---------------------------------------------- Position, ResetZeroPosition
\* the offsets ResetZeroPosition is called with, in revolutions: whole and
\* fractional step counts, of both signs
OffsetInputs == {0, Unit, -Unit, Unit \div 4, -(3 * Unit) \div 4, 3 * Unit}

\* the greatest common divisor of a and b > 0
RECURSIVE GCD(_, _)
GCD(a, b) == IF a % b = 0 THEN b ELSE GCD(b, a % b)

\* the quotient n / d of a float64 division, d > 0, as a fraction in lowest
\* terms
Quot(n, d) == [n |-> n \div GCD(n, d), d |-> d \div GCD(n, d)]

\* the value of four hexadecimal digits
Half(ds) == ds[1] * 4096 + ds[2] * 256 + ds[3] * 16 + ds[4]

\* Position, line 375: strconv.ParseUint(resp, 16, 32), the value in two
\* 16-bit halves; no digits, or more than 32 bits of them, is an error
ParseUint(ds) ==
    IF Len(ds) = 0 \/ Len(ds) > 8 \/ \E i \in 1..Len(ds) : ds[i] \notin 0..15
    THEN [ok |-> FALSE, hi |-> 0, lo |-> 0]
    ELSE LET p == [i \in 1..8 |-> IF i <= 8 - Len(ds) THEN 0 ELSE ds[i - (8 - Len(ds))]]
         IN  [ok |-> TRUE, hi |-> Half(SubSeq(p, 1, 4)), lo |-> Half(SubSeq(p, 5, 8))]

\* an int32 conversion that reads the top bit as a sign over a magnitude:
\* the variant C16 is checked against
toInt32_signMagnitude(u) ==
    IF u.hi >= 32768 THEN -((u.hi - 32768) * 65536 + u.lo) ELSE u.hi * 65536 + u.lo

\* Position, line 382: int32(val), the same 32 bits read as two's complement
toInt32(u) == (IF u.hi >= 32768 THEN u.hi - 65536 ELSE u.hi) * 65536 + u.lo

\* Position, lines 366-383, on a finished IP round trip: the send's error, an
\* error for a response without "=", the parse error, or the signed step
\* count divided by stepsPerRev
positionOf(s, stepsPerRev) ==
    IF ~s.ok THEN [v |-> Quot(0, 1), err |-> sendErr(s)]
    ELSE IF s.resp.k # "val" THEN [v |-> Quot(0, 1), err |-> Err("unexpected", "IP")]
    ELSE IF ~ParseUint(s.resp.v).ok THEN [v |-> Quot(0, 1), err |-> Err("parse", "IP")]
    ELSE [v |-> Quot(toInt32(ParseUint(s.resp.v)), stepsPerRev), err |-> Nil]

\* Position, line 359: the call is made and blocks on s.mu.Lock()
Position(t) ==
    /\ t = Poller
    /\ CanCall(t)
    /\ args' = [args EXCEPT ![t] = [NoArgs EXCEPT !.op = "Position"]]
    /\ pc' = [pc EXCEPT ![t] = "pos_lock"]
    /\ calls' = [calls EXCEPT ![t] = @ + 1]
    /\ log' = [log EXCEPT ![t] = <<>>]
    /\ ghost' = [ghost EXCEPT ![t] = Ghost0]
    /\ ret' = [ret EXCEPT ![t] = NoRet]
    /\ UNCHANGED restOfMotion
    /\ UNCHANGED <<mu, comm, handle, cmu, loc, snd, cancelled, dev, cfg, faults>>

\* Position, lines 360-366: the coarse lock is taken and IP is sent
PositionLock(t) ==
    /\ pc[t] = "pos_lock"
    /\ mu = None
    /\ mu' = t
    /\ Send(t, Cmd("IP"), "pos_ip")
    /\ ghost' = [ghost EXCEPT ![t].seen = Finished]
    /\ UNCHANGED restOfMotion
    /\ UNCHANGED <<comm, handle, cmu, args, loc, ret, cancelled, dev, cfg, calls, faults>>

\* Position, lines 366-383: IP returned; the position in revolutions
PositionDone(t) ==
    /\ pc[t] = "pos_ip"
    /\ Returned(t)
    /\ LET p == positionOf(snd[t], cfg.stepsPerRev)
       IN  Return(t, IF p.err # Nil THEN Ret("err", p.err, p.v) ELSE Ret("ok", Nil, p.v))
    /\ ghost' = [ghost EXCEPT ![t].reply = snd[t].resp]
    /\ UNCHANGED restOfMotion
    /\ UNCHANGED <<comm, handle, cmu, args, loc, cancelled, dev, cfg, log, calls, faults>>

\* ResetZeroPosition, line 392: the call is made and blocks on s.mu.Lock()
ResetZeroPosition(t) ==
    /\ t = Admin
    /\ CanCall(t)
    /\ \E o \in OffsetInputs :
         args' = [args EXCEPT ![t] = [NoArgs EXCEPT !.op = "ResetZeroPosition", !.offset = o]]
    /\ pc' = [pc EXCEPT ![t] = "rz_lock"]
    /\ calls' = [calls EXCEPT ![t] = @ + 1]
    /\ log' = [log EXCEPT ![t] = <<>>]
    /\ ghost' = [ghost EXCEPT ![t] = Ghost0]
    /\ ret' = [ret EXCEPT ![t] = NoRet]
    /\ UNCHANGED restOfMotion
    /\ UNCHANGED <<mu, comm, handle, cmu, loc, snd, cancelled, dev, cfg, faults>>

\* a step count with the offset's own sign: the variant C14 is checked
\* against
newCurrentPosition_sameSign(offset, stepsPerRev) == Trunc(offset * stepsPerRev, Unit)

\* ResetZeroPosition, line 397: int32(-offset * float64(s.stepsPerRev)), the
\* product truncated toward zero
newCurrentPosition(offset, stepsPerRev) == Trunc((-offset) * stepsPerRev, Unit)

\* ResetZeroPosition, lines 393-406: the coarse lock is taken and
\* EP<steps> is sent
ResetLock(t) ==
    /\ pc[t] = "rz_lock"
    /\ mu = None
    /\ mu' = t
    /\ Send(t, CmdV("EP", newCurrentPosition(args[t].offset, cfg.stepsPerRev)), "rz_ep")
    /\ ghost' = [ghost EXCEPT ![t].seen = Finished]
    /\ UNCHANGED restOfMotion
    /\ UNCHANGED <<comm, handle, cmu, args, loc, ret, cancelled, dev, cfg, calls, faults>>

\* ResetZeroPosition that sends SP whatever became of EP: the variant C24 is
\* checked against
ResetAfterEP_sendsSP(t) ==
    /\ pc[t] = "rz_ep"
    /\ Returned(t)
    /\ Send(t, CmdV("SP", newCurrentPosition(args[t].offset, cfg.stepsPerRev)), "rz_sp")
    /\ ghost' = [ghost EXCEPT ![t].oks = Append(@, snd[t].ok)]
    /\ UNCHANGED restOfMotion
    /\ UNCHANGED <<mu, ret>>
    /\ UNCHANGED restOfMotion
    /\ UNCHANGED <<comm, handle, cmu, args, loc, cancelled, dev, cfg, calls, faults>>

\* ResetZeroPosition, lines 406-411: EP returned; SP<steps> is sent
ResetAfterEP(t) ==
    /\ pc[t] = "rz_ep"
    /\ Returned(t)
    /\ IF ~snd[t].ok
       THEN /\ Return(t, ErrRet(sendErr(snd[t])))
            /\ UNCHANGED log
       ELSE /\ Send(t, CmdV("SP", newCurrentPosition(args[t].offset, cfg.stepsPerRev)), "rz_sp")
            /\ UNCHANGED <<mu, ret>>
    /\ ghost' = [ghost EXCEPT ![t].oks = Append(@, snd[t].ok)]
    /\ UNCHANGED restOfMotion
    /\ UNCHANGED <<comm, handle, cmu, args, loc, cancelled, dev, cfg, calls, faults>>

\* ResetZeroPosition, lines 411-416: SP returned
ResetAfterSP(t) ==
    /\ pc[t] = "rz_sp"
    /\ Returned(t)
    /\ Return(t, ErrRet(sendErr(snd[t])))
    /\ ghost' = [ghost EXCEPT ![t].oks = Append(@, snd[t].ok)]
    /\ UNCHANGED restOfMotion
    /\ UNCHANGED <<comm, handle, cmu, args, loc, cancelled, dev, cfg, log, calls, faults>>

\* ---------------------------------------------------------------- DoCommand
\* the values DoCommand finds under the key "command": a query, a register
\* write, the status request, a command the controller does not know, and
\* a value that is not a string
DoInputs ==
    { [command |-> c, isString |-> TRUE] :
          c \in {Cmd("IP"), CmdV("DI", 8), Cmd("SC"), Cmd("ZZ")} }
    \cup { [command |-> Cmd(""), isString |-> FALSE] }

\* comms.send's first result: the unframed payload, "" with an error
sendResponse(s) == IF s.ok THEN s.resp ELSE Reply("", "", 0)

\* DoCommand, line 480: the call is made and blocks on s.mu.Lock()
DoCommand(t) ==
    /\ t \in {Admin, Poller}
    /\ CanCall(t)
    /\ \E in \in DoInputs :
         args' = [args EXCEPT ![t] = [NoArgs EXCEPT !.op = "DoCommand",
                                                    !.command = in.command,
                                                    !.isString = in.isString]]
    /\ pc' = [pc EXCEPT ![t] = "dc_lock"]
    /\ calls' = [calls EXCEPT ![t] = @ + 1]
    /\ log' = [log EXCEPT ![t] = <<>>]
    /\ ghost' = [ghost EXCEPT ![t] = Ghost0]
    /\ ret' = [ret EXCEPT ![t] = NoRet]
    /\ UNCHANGED restOfMotion
    /\ UNCHANGED <<mu, comm, handle, cmu, loc, snd, cancelled, dev, cfg, faults>>

\* DoCommand, lines 481-485: the coarse lock is taken; cmd["command"].(string)
\* panics on a value that is not a string, and the deferred unlock runs;
\* otherwise the string is handed to send as it is
DoCommandLock(t) ==
    /\ pc[t] = "dc_lock"
    /\ mu = None
    /\ IF ~args[t].isString
       THEN /\ Return(t, Ret("panic", Nil, FALSE))
            /\ UNCHANGED log
       ELSE /\ mu' = t
            /\ Send(t, args[t].command, "dc_send")
            /\ UNCHANGED ret
    /\ ghost' = [ghost EXCEPT ![t].seen = Finished]
    /\ UNCHANGED restOfMotion
    /\ UNCHANGED <<comm, handle, cmu, args, loc, cancelled, dev, cfg, calls, faults>>

\* DoCommand that sends the command once more when the send failed: the
\* variant C25 is checked against
DoCommandDone_again(t) ==
    /\ pc[t] = "dc_send"
    /\ Returned(t)
    /\ IF ~snd[t].ok /\ Len(log[t]) = 1
       THEN /\ Send(t, args[t].command, "dc_send")
            /\ UNCHANGED <<mu, ret>>
       ELSE /\ Return(t, Ret(IF snd[t].ok THEN "ok" ELSE "err", sendErr(snd[t]), sendResponse(snd[t])))
            /\ UNCHANGED log
    /\ ghost' = [ghost EXCEPT ![t].reply = snd[t].resp, ![t].oks = Append(@, snd[t].ok)]
    /\ UNCHANGED restOfMotion
    /\ UNCHANGED <<comm, handle, cmu, args, loc, cancelled, dev, cfg, calls, faults>>

\* DoCommand, lines 485-486: send returned; its response goes under
\* "response" and its error is returned with it
DoCommandDone(t) ==
    /\ pc[t] = "dc_send"
    /\ Returned(t)
    /\ Return(t, Ret(IF snd[t].ok THEN "ok" ELSE "err", sendErr(snd[t]), sendResponse(snd[t])))
    /\ ghost' = [ghost EXCEPT ![t].reply = snd[t].resp, ![t].oks = Append(@, snd[t].ok)]
    /\ UNCHANGED restOfMotion
    /\ UNCHANGED <<comm, handle, cmu, args, loc, cancelled, dev, cfg, log, calls, faults>>

\* ------------------------------------------------- IsMoving, IsPowered, Stop
\* IsMoving, line 326: the call is made
IsMoving(t) ==
    /\ t = Poller
    /\ CanCall(t)
    /\ args' = [args EXCEPT ![t] = [NoArgs EXCEPT !.op = "IsMoving"]]
    /\ pc' = [pc EXCEPT ![t] = "im_call"]
    /\ calls' = [calls EXCEPT ![t] = @ + 1]
    /\ log' = [log EXCEPT ![t] = <<>>]
    /\ ghost' = [ghost EXCEPT ![t] = Ghost0]
    /\ ret' = [ret EXCEPT ![t] = NoRet]
    /\ UNCHANGED restOfMotion
    /\ UNCHANGED <<mu, comm, handle, cmu, loc, snd, cancelled, dev, cfg, faults>>

\* an IsMoving that takes the coarse lock: the variant C9 is checked against
IsMovingBegin_locked(t) ==
    /\ pc[t] = "im_call"
    /\ mu = None
    /\ mu' = t
    /\ Send(t, Cmd("SC"), "im_sc")
    /\ UNCHANGED restOfMotion
    /\ UNCHANGED <<comm, handle, cmu, args, loc, ret, cancelled, dev, cfg, ghost,
                   calls, faults>>

\* IsMoving, lines 327-330: no lock is taken; getStatus sends SC
IsMovingBegin(t) ==
    /\ pc[t] = "im_call"
    /\ Send(t, Cmd("SC"), "im_sc")
    /\ UNCHANGED restOfMotion
    /\ UNCHANGED <<mu, comm, handle, cmu, args, loc, ret, cancelled, dev, cfg, ghost,
                   calls, faults>>

\* IsMoving, lines 332-338: SC returned; the moving bit of the status
IsMovingDone(t) ==
    /\ pc[t] = "im_sc"
    /\ Returned(t)
    /\ LET m == isMoving(snd[t])
       IN  Return(t, IF m.panic THEN Ret("panic", Nil, FALSE)
                     ELSE IF m.err # Nil THEN Ret("err", m.err, FALSE) ELSE Ret("ok", Nil, m.v))
    /\ ghost' = [ghost EXCEPT ![t].devMoving = snd[t].mv, ![t].reply = snd[t].resp]
    /\ UNCHANGED restOfMotion
    /\ UNCHANGED <<comm, handle, cmu, args, loc, cancelled, dev, cfg, log, calls, faults>>

\* IsPowered, line 342: the call is made
IsPowered(t) ==
    /\ t = Poller
    /\ CanCall(t)
    /\ args' = [args EXCEPT ![t] = [NoArgs EXCEPT !.op = "IsPowered"]]
    /\ pc' = [pc EXCEPT ![t] = "ip_call"]
    /\ calls' = [calls EXCEPT ![t] = @ + 1]
    /\ log' = [log EXCEPT ![t] = <<>>]
    /\ ghost' = [ghost EXCEPT ![t] = Ghost0]
    /\ ret' = [ret EXCEPT ![t] = NoRet]
    /\ UNCHANGED restOfMotion
    /\ UNCHANGED <<mu, comm, handle, cmu, loc, snd, cancelled, dev, cfg, faults>>

\* IsPowered, lines 343-345: no lock is taken; getStatus sends SC
IsPoweredBegin(t) ==
    /\ pc[t] = "ip_call"
    /\ Send(t, Cmd("SC"), "ip_sc")
    /\ UNCHANGED restOfMotion
    /\ UNCHANGED <<mu, comm, handle, cmu, args, loc, ret, cancelled, dev, cfg, ghost,
                   calls, faults>>

\* IsPowered, lines 346-355: SC returned; bit 0 of the status
IsPoweredDone(t) ==
    /\ pc[t] = "ip_sc"
    /\ Returned(t)
    /\ LET p == isPowered(snd[t])
       IN  Return(t, IF p.panic THEN Ret("panic", Nil, FALSE)
                     ELSE IF p.err # Nil THEN Ret("err", p.err, FALSE) ELSE Ret("ok", Nil, p.v))
    /\ ghost' = [ghost EXCEPT ![t].devMoving = snd[t].mv, ![t].reply = snd[t].resp]
    /\ UNCHANGED restOfMotion
    /\ UNCHANGED <<comm, handle, cmu, args, loc, cancelled, dev, cfg, log, calls, faults>>

\* a Stop that waits for the coarse lock, as the moves do: the variant C34
\* is checked against
Stop_locked(t) ==
    /\ t = Poller
    /\ CanCall(t)
    /\ mu = None
    /\ args' = [args EXCEPT ![t] = [NoArgs EXCEPT !.op = "Stop"]]
    /\ calls' = [calls EXCEPT ![t] = @ + 1]
    /\ snd' = [snd EXCEPT ![t] = Issue(Cmd("SK"))]
    /\ log' = [log EXCEPT ![t] = <<Cmd("SK")>>]
    /\ pc' = [pc EXCEPT ![t] = "st_sk"]
    /\ ghost' = [ghost EXCEPT ![t] = Ghost0]
    /\ ret' = [ret EXCEPT ![t] = NoRet]
    /\ UNCHANGED restOfMotion
    /\ UNCHANGED <<mu, comm, handle, cmu, loc, cancelled, dev, cfg, faults>>

\* Stop, lines 468-473, called from outside: no lock is taken, SK is sent
Stop(t) ==
    /\ t = Poller
    /\ CanCall(t)
    /\ args' = [args EXCEPT ![t] = [NoArgs EXCEPT !.op = "Stop"]]
    /\ calls' = [calls EXCEPT ![t] = @ + 1]
    /\ snd' = [snd EXCEPT ![t] = Issue(Cmd("SK"))]
    /\ log' = [log EXCEPT ![t] = <<Cmd("SK")>>]
    /\ pc' = [pc EXCEPT ![t] = "st_sk"]
    /\ ghost' = [ghost EXCEPT ![t] = Ghost0]
    /\ ret' = [ret EXCEPT ![t] = NoRet]
    /\ UNCHANGED restOfMotion
    /\ UNCHANGED <<mu, comm, handle, cmu, loc, cancelled, dev, cfg, faults>>

\* Stop, lines 473-477: SK returned
StopDone(t) ==
    /\ pc[t] = "st_sk"
    /\ Returned(t)
    /\ Return(t, ErrRet(sendErr(snd[t])))
    /\ UNCHANGED restOfMotion
    /\ UNCHANGED <<comm, handle, cmu, args, loc, cancelled, dev, cfg, log, ghost, calls, faults>>

\* --------------------------------------------------------- Reconfigure, Close
\* no motor has been constructed: s.comm is nil and no stream was opened
Unbuilt == comm = NoComm /\ \A s \in Sessions : handle[s] = "unopened"

\* newMotor returned (nil, err): there is no motor to call
FailedNew == pc[Admin] = "done" /\ args[Admin].op = "newMotor" /\ ret[Admin].kind # "ok"

\* a motor has been returned by newMotor
Live == ~Unbuilt /\ ~FailedNew

\* newMotor, lines 50-66: a motor with nil comm is made and Reconfigure is
\* called on it; its error makes newMotor return (nil, err)
newMotor(t) ==
    /\ t = Admin
    /\ CanCall(t)
    /\ Unbuilt
    /\ \E c \in confIn :
         args' = [args EXCEPT ![t] = [NoArgs EXCEPT !.op = "newMotor", !.conf = c]]
    /\ pc' = [pc EXCEPT ![t] = "rc_lock"]
    /\ calls' = [calls EXCEPT ![t] = @ + 1]
    /\ log' = [log EXCEPT ![t] = <<>>]
    /\ ghost' = [ghost EXCEPT ![t] = Ghost0]
    /\ ret' = [ret EXCEPT ![t] = NoRet]
    /\ UNCHANGED restOfMotion
    /\ UNCHANGED <<mu, comm, handle, cmu, loc, snd, cancelled, dev, cfg, faults>>

\* Reconfigure, line 68: the call is made and blocks on s.mu.Lock()
Reconfigure(t) ==
    /\ t = Admin
    /\ CanCall(t)
    /\ Live
    /\ \E c \in confIn :
         args' = [args EXCEPT ![t] = [NoArgs EXCEPT !.op = "Reconfigure", !.conf = c]]
    /\ pc' = [pc EXCEPT ![t] = "rc_lock"]
    /\ calls' = [calls EXCEPT ![t] = @ + 1]
    /\ log' = [log EXCEPT ![t] = <<>>]
    /\ ghost' = [ghost EXCEPT ![t] = Ghost0]
    /\ ret' = [ret EXCEPT ![t] = NoRet]
    /\ UNCHANGED restOfMotion
    /\ UNCHANGED <<mu, comm, handle, cmu, loc, snd, cancelled, dev, cfg, faults>>

\* comms.Close, lines 109-112, on session s: the handle is closed, without
\* taking comms.mu
Closed(s) == [handle EXCEPT ![s] = "closed"]

\* a Reconfigure that closes the old session and keeps the reference to it:
\* the variant C38 is checked against
ReconfigureLock_keepsRef(t) ==
    /\ pc[t] = "rc_lock"
    /\ mu = None
    /\ mu' = t
    /\ cfg' = [cfg EXCEPT !.stepsPerRev = args[t].conf.stepsPerRev]
    /\ handle' = IF comm # NoComm THEN Closed(comm) ELSE handle
    /\ pc' = [pc EXCEPT ![t] = "rc_open"]
    /\ UNCHANGED restOfMotion
    /\ UNCHANGED <<comm, cmu, args, loc, snd, ret, cancelled, dev, log, ghost, calls, faults>>

\* Reconfigure, lines 69-88: the coarse lock is taken, stepsPerRev updated,
\* and an existing session is closed and s.comm set to nil
ReconfigureLock(t) ==
    /\ pc[t] = "rc_lock"
    /\ mu = None
    /\ mu' = t
    /\ cfg' = [cfg EXCEPT !.stepsPerRev = args[t].conf.stepsPerRev]
    /\ handle' = IF comm # NoComm THEN Closed(comm) ELSE handle
    /\ comm' = NoComm
    /\ pc' = [pc EXCEPT ![t] = "rc_open"]
    /\ UNCHANGED restOfMotion
    /\ UNCHANGED <<cmu, args, loc, snd, ret, cancelled, dev, log, ghost, calls, faults>>

\* the session getComm would open next, NoComm when none is left
Fresh == IF \E s \in Sessions : handle[s] = "unopened"
         THEN CHOOSE s \in Sessions : handle[s] = "unopened" /\ \A r \in Sessions :
                                         handle[r] = "unopened" => s <= r
         ELSE NoComm

\* strings.ToLower on a string of ASCII characters
ToLower(s) == [i \in 1..Len(s) |-> IF s[i] >= 65 /\ s[i] <= 90 THEN s[i] + 32 ELSE s[i]]

\* getComm comparing the names as written: the variant C22 is checked against
getComm_caseSensitive(conf) ==
    IF conf.protocol = ProtoCan THEN Err("unsupported comm type", "")
    ELSE IF conf.protocol \in {ProtoIp, ProtoRs485, ProtoRs232}
    THEN IF conf.openOk /\ Fresh # NoComm THEN Nil ELSE Err("open", "")
    ELSE Err("unknown comm type", "")

\* getComm, lines 121-142: the error it returns, Nil when it returns a session.
\* "can" is unsupported, "ip", "rs485" and "rs232" dial or open the uri, and
\* any other name is unknown; the names are compared in lower case
getComm(conf) ==
    IF ToLower(conf.protocol) = ProtoCan THEN Err("unsupported comm type", "")
    ELSE IF ToLower(conf.protocol) \in {ProtoIp, ProtoRs485, ProtoRs232}
    THEN IF conf.openOk /\ Fresh # NoComm THEN Nil ELSE Err("open", "")
    ELSE Err("unknown comm type", "")

\* Reconfigure, lines 90-109: getComm fails and Reconfigure returns its
\* error with s.comm nil; or the new session and the limits are installed
\* and a positive default acceleration is stored with AC, a positive default
\* deceleration with DE
ReconfigureOpen(t) ==
    /\ pc[t] = "rc_open"
    /\ LET c == args[t].conf
       IN  IF getComm(c) # Nil
           THEN /\ Return(t, ErrRet(getComm(c)))
                /\ UNCHANGED <<comm, handle, cfg, log>>
           ELSE /\ comm' = Fresh
                /\ handle' = [handle EXCEPT ![Fresh] = "open"]
                /\ cfg' = [cfg EXCEPT !.accelLimits = c.accelLimits, !.decelLimits = c.decelLimits,
                                      !.rpmLimits = c.rpmLimits, !.defaultAccel = c.defaultAccel,
                                      !.defaultDecel = c.defaultDecel]
                /\ IF c.defaultAccel > 0
                   THEN /\ snd' = [snd EXCEPT ![t] = [Issue(storeText("AC", c.defaultAccel))
                                                         EXCEPT !.phase = "write", !.sess = Fresh]]
                        /\ log' = [log EXCEPT ![t] = Append(@, storeText("AC", c.defaultAccel))]
                        /\ pc' = [pc EXCEPT ![t] = "rc_ac"]
                        /\ UNCHANGED <<mu, ret>>
                   ELSE IF c.defaultDecel > 0
                   THEN /\ snd' = [snd EXCEPT ![t] = [Issue(storeText("DE", c.defaultDecel))
                                                         EXCEPT !.phase = "write", !.sess = Fresh]]
                        /\ log' = [log EXCEPT ![t] = Append(@, storeText("DE", c.defaultDecel))]
                        /\ pc' = [pc EXCEPT ![t] = "rc_de"]
                        /\ UNCHANGED <<mu, ret>>
                   ELSE /\ Return(t, ErrRet(Nil))
                        /\ UNCHANGED log
    /\ UNCHANGED restOfMotion
    /\ UNCHANGED <<cmu, args, loc, cancelled, dev, ghost, calls, faults>>

\* Reconfigure, lines 100-109: the AC store returned
ReconfigureAfterAC(t) ==
    /\ pc[t] = "rc_ac"
    /\ Returned(t)
    /\ IF storeErr(snd[t]) # Nil
       THEN /\ Return(t, ErrRet(storeErr(snd[t])))
            /\ UNCHANGED log
       ELSE IF cfg.defaultDecel > 0
       THEN /\ Send(t, storeText("DE", cfg.defaultDecel), "rc_de")
            /\ UNCHANGED <<mu, ret>>
       ELSE /\ Return(t, ErrRet(Nil))
            /\ UNCHANGED log
    /\ UNCHANGED restOfMotion
    /\ UNCHANGED <<comm, handle, cmu, args, loc, cancelled, dev, cfg, ghost, calls, faults>>

\* Reconfigure, lines 107-114: the DE store returned; AM is stored
ReconfigureAfterDE(t) ==
    /\ pc[t] = "rc_de"
    /\ Returned(t)
    /\ IF storeErr(snd[t]) # Nil
       THEN /\ Return(t, ErrRet(storeErr(snd[t])))
            /\ UNCHANGED log
       ELSE /\ Send(t, storeText("AM", cfg.defaultDecel), "rc_am")
            /\ UNCHANGED <<mu, ret>>
    /\ UNCHANGED restOfMotion
    /\ UNCHANGED <<comm, handle, cmu, args, loc, cancelled, dev, cfg, ghost, calls, faults>>

\* Reconfigure, lines 112-118: the AM store returned
ReconfigureAfterAM(t) ==
    /\ pc[t] = "rc_am"
    /\ Returned(t)
    /\ Return(t, ErrRet(storeErr(snd[t])))
    /\ UNCHANGED restOfMotion
    /\ UNCHANGED <<comm, handle, cmu, args, loc, cancelled, dev, cfg, log, ghost, calls, faults>>

\* Close, line 240: the call is made and blocks on s.mu.Lock()
Close(t) ==
    /\ t = Admin
    /\ CanCall(t)
    /\ Live
    /\ args' = [args EXCEPT ![t] = [NoArgs EXCEPT !.op = "Close"]]
    /\ pc' = [pc EXCEPT ![t] = "cl_lock"]
    /\ calls' = [calls EXCEPT ![t] = @ + 1]
    /\ log' = [log EXCEPT ![t] = <<>>]
    /\ ghost' = [ghost EXCEPT ![t] = Ghost0]
    /\ ret' = [ret EXCEPT ![t] = NoRet]
    /\ UNCHANGED restOfMotion
    /\ UNCHANGED <<mu, comm, handle, cmu, loc, snd, cancelled, dev, cfg, faults>>

\* Close, lines 241-243: the coarse lock is taken and SJ sent
CloseLock(t) ==
    /\ pc[t] = "cl_lock"
    /\ mu = None
    /\ mu' = t
    /\ Send(t, Cmd("SJ"), "cl_sj")
    /\ UNCHANGED restOfMotion
    /\ UNCHANGED <<comm, handle, cmu, args, loc, ret, cancelled, dev, cfg, ghost, calls, faults>>

\* Close, lines 243-244: SJ returned; the session is closed and both errors
\* are combined
CloseAfterSJ(t) ==
    /\ pc[t] = "cl_sj"
    /\ Returned(t)
    /\ handle' = Closed(comm)
    /\ Return(t, ErrRet(Combine(sendErr(snd[t]),
                                IF handle[comm] = "closed" THEN Err("closed", "") ELSE Nil)))
    /\ UNCHANGED restOfMotion
    /\ UNCHANGED <<comm, cmu, args, loc, cancelled, dev, cfg, log, ghost, calls, faults>>

\* ------------------------------------------------------------ specification
Cfg0 == [stepsPerRev |-> 2, accelLimits |-> NoLimit, decelLimits |-> NoLimit,
         rpmLimits |-> [min |-> 0, max |-> 900],
         defaultAccel |-> 100 * Unit, defaultDecel |-> 100 * Unit]

\* one open session, no operation running
InitThreads ==
    /\ mu = None
    /\ comm = 1
    /\ handle = [s \in Sessions |-> IF s = 1 THEN "open" ELSE "unopened"]
    /\ cmu = [s \in Sessions |-> None]
    /\ pc = [t \in Threads |-> "idle"]
    /\ args = [t \in Threads |-> NoArgs]
    /\ loc = [t \in Threads |-> Loc0]
    /\ snd = [t \in Threads |-> NoSend]
    /\ ret = [t \in Threads |-> NoRet]
    /\ cancelled = [t \in Threads |-> FALSE]
    /\ log = [t \in Threads |-> <<>>]
    /\ ghost = [t \in Threads |-> Ghost0]
    /\ calls = [t \in Threads |-> 0]
    /\ faults = 0

\* the state NewMotor leaves
InitMotion ==
    /\ InitThreads
    /\ cfg = Cfg0

\* the controller at rest at position p
DevAt(a, d, p) == [AC |-> a, DE |-> d, DI |-> 0, pos |-> p, move |-> "", queued |-> FALSE,
                   moving |-> FALSE]

DevIdle(a, d) == DevAt(a, d, 0)

\* the concurrent operations are checked on a controller with both
\* registers set and with callers that override both
Init ==
    /\ InitWire
    /\ InitMotion
    /\ dev = DevIdle(100 * Unit, 100 * Unit)
    /\ extraIn = [acc |-> F64(10 * Unit), dec |-> F64(20 * Unit + 4)]
    /\ callIn \in [Movers -> [rpm : RpmInputs, revs : RevInputs]]
    /\ quota = [t \in Threads |-> MaxCalls]
    /\ confIn = ConfInputs

\* the steps of all threads and of the controller; cancellation and injected
\* transport faults are explored under SpecMove
Next ==
    \/ \E t \in Threads : GoFor(t)
    \/ \E t \in Threads : GoTo(t)
    \/ \E t \in Threads : MoveLock(t)
    \/ \E t \in Threads : MoveAfterSJ(t)
    \/ \E t \in Threads, k \in Keys : OverrideKey(t, k)
    \/ \E t \in Threads, k \in Keys : OverrideQueried(t, k)
    \/ \E t \in Threads, k \in Keys : OverrideStored(t, k)
    \/ \E t \in Threads : MoveConfigure(t)
    \/ \E t \in Threads : MoveAfterDI(t)
    \/ \E t \in Threads : MoveAfterVE(t)
    \/ \E t \in Threads : MoveAfterStart(t)
    \/ \E t \in Threads : WaitSelect(t)
    \/ \E t \in Threads : WaitAfterBS(t)
    \/ \E t \in Threads : WaitAfterSC(t)
    \/ \E t \in Threads : RestoreAcc(t)
    \/ \E t \in Threads : RestoredAcc(t)
    \/ \E t \in Threads : RestoreDec(t)
    \/ \E t \in Threads : RestoredDec(t)
    \/ \E t \in Threads : IsMoving(t)
    \/ \E t \in Threads : IsMovingBegin(t)
    \/ \E t \in Threads : IsMovingDone(t)
    \/ \E t \in Threads : IsPowered(t)
    \/ \E t \in Threads : IsPoweredBegin(t)
    \/ \E t \in Threads : IsPoweredDone(t)
    \/ \E t \in Threads : Stop(t)
    \/ \E t \in Threads : StopDone(t)
    \/ \E t \in Threads : Reconfigure(t)
    \/ \E t \in Threads : ReconfigureLock(t)
    \/ \E t \in Threads : ReconfigureOpen(t)
    \/ \E t \in Threads : ReconfigureAfterAC(t)
    \/ \E t \in Threads : ReconfigureAfterDE(t)
    \/ \E t \in Threads : ReconfigureAfterAM(t)
    \/ \E t \in Threads : Close(t)
    \/ \E t \in Threads : CloseLock(t)
    \/ \E t \in Threads : CloseAfterSJ(t)
    \/ \E t \in Threads : commSendWrite(t)
    \/ \E t \in Threads : commSendRead(t)
    \/ \E t \in Threads : Panic(t)
    \/ DevStart
    \/ DevFinish

Spec == Init /\ [][Next]_vars

\* ---------------------------------------------------------------- SpecMove
\* one caller's move, on every controller state and with every extra map
InitMove ==
    /\ InitWire
    /\ InitMotion
    /\ \E a \in DevAccels, d \in DevAccels : dev = DevIdle(a, d)
    /\ extraIn \in [Keys -> ExtraInputs]
    /\ callIn \in [Movers -> [rpm : RpmInputs, revs : RevInputs]]
    /\ quota = [t \in Threads |-> MaxCalls]
    /\ confIn = ConfInputs

Mover == "m1"

NextMove ==
    \/ \E t \in {Mover} : GoFor(t)
    \/ \E t \in {Mover} : GoTo(t)
    \/ \E t \in {Mover} : Cancel(t)
    \/ \E t \in {Mover} : MoveLock(t)
    \/ \E t \in {Mover} : MoveAfterSJ(t)
    \/ \E t \in {Mover}, k \in Keys : OverrideKey(t, k)
    \/ \E t \in {Mover}, k \in Keys : OverrideQueried(t, k)
    \/ \E t \in {Mover}, k \in Keys : OverrideStored(t, k)
    \/ \E t \in {Mover} : MoveConfigure(t)
    \/ \E t \in {Mover} : MoveAfterDI(t)
    \/ \E t \in {Mover} : MoveAfterVE(t)
    \/ \E t \in {Mover} : MoveAfterStart(t)
    \/ \E t \in {Mover} : WaitSelect(t)
    \/ \E t \in {Mover} : WaitStopped(t)
    \/ \E t \in {Mover} : WaitAfterBS(t)
    \/ \E t \in {Mover} : WaitAfterSC(t)
    \/ \E t \in {Mover} : RestoreAcc(t)
    \/ \E t \in {Mover} : RestoredAcc(t)
    \/ \E t \in {Mover} : RestoreDec(t)
    \/ \E t \in {Mover} : RestoredDec(t)
    \/ \E t \in {Mover} : commSendWrite(t)
    \/ \E t \in {Mover} : commWriteFault(t)
    \/ \E t \in {Mover} : commRejected(t)
    \/ \E t \in {Mover} : commSendRead(t)
    \/ \E t \in {Mover} : commReadFault(t)
    \/ DevStart
    \/ DevFinish

SpecMove == InitMove /\ [][NextMove]_vars

\* the transport layer is checked with the motion controller at rest
InitWireSpec ==
    /\ InitWire
    /\ InitMotion
    /\ dev = DevIdle(0, 0)
    /\ extraIn = NoExtra
    /\ callIn \in [Movers -> [rpm : RpmInputs, revs : RevInputs]]
    /\ quota = [t \in Threads |-> MaxCalls]
    /\ confIn = ConfInputs

NextWire ==
    \/ \E c \in Callers : sendCall(c)
    \/ \E c \in Callers : sendLock(c)
    \/ \E c \in Callers : sendWrite(c)
    \/ \E c \in Callers : sendWriteShort(c)
    \/ \E c \in Callers : sendRead(c)
    \/ \E c \in Callers : sendReadError(c)
    \/ DeviceRespond

SpecWire == InitWireSpec /\ [][NextWire]_vars


\* ---------------------------------------------------------------- SpecArgs
\* two callers' moves, one after the other, over limits that are set and
\* unset and arguments on both sides of them, with no transport fault; the
\* second caller's distance is the opposite of the first's and its rpm the
\* same or the opposite
ArgRpms == {-1000, 0, 600, 1000}
ArgRevs == {Unit, (3 * Unit) \div 4}

\* the limits of a configuration: none, one bound of each, or a different
\* range for each
ArgLimits ==
    { [accelLimits |-> NoLimit, decelLimits |-> NoLimit, rpmLimits |-> NoLimit],
      [accelLimits |-> [min |-> 20 * Unit, max |-> 0],
       decelLimits |-> [min |-> 0, max |-> 40 * Unit],
       rpmLimits |-> [min |-> 0, max |-> 900]],
      [accelLimits |-> [min |-> 20 * Unit, max |-> 50 * Unit],
       decelLimits |-> [min |-> 30 * Unit, max |-> 40 * Unit],
       rpmLimits |-> [min |-> 300, max |-> 900]] }

ArgExtras ==
    { [acc |-> F64(10 * Unit), dec |-> F64(10 * Unit)],
      [acc |-> F64(45 * Unit), dec |-> F64(45 * Unit)],
      [acc |-> Absent, dec |-> F64(0)] }

InitArgs ==
    /\ InitWire
    /\ InitThreads
    /\ \E l \in ArgLimits :
         cfg = [Cfg0 EXCEPT !.accelLimits = l.accelLimits, !.decelLimits = l.decelLimits,
                            !.rpmLimits = l.rpmLimits]
    /\ dev = DevIdle(100 * Unit, 100 * Unit)
    /\ extraIn \in ArgExtras
    /\ \E r \in ArgRpms, d \in ArgRevs, s \in {-1, 1} :
         callIn = [t \in Movers |-> IF t = "m1" THEN [rpm |-> r, revs |-> d]
                                    ELSE [rpm |-> s * r, revs |-> -d]]
    /\ quota = [t \in Threads |-> MaxCalls]
    /\ confIn = ConfInputs

NextArgs ==
    \/ \E t \in Movers : GoFor(t)
    \/ \E t \in Movers : GoTo(t)
    \/ \E t \in Movers : MoveLock(t)
    \/ \E t \in Movers : MoveAfterSJ(t)
    \/ \E t \in Movers, k \in Keys : OverrideKey(t, k)
    \/ \E t \in Movers, k \in Keys : OverrideQueried(t, k)
    \/ \E t \in Movers, k \in Keys : OverrideStored(t, k)
    \/ \E t \in Movers : MoveConfigure(t)
    \/ \E t \in Movers : MoveAfterDI(t)
    \/ \E t \in Movers : MoveAfterVE(t)
    \/ \E t \in Movers : MoveAfterStart(t)
    \/ \E t \in Movers : WaitSelect(t)
    \/ \E t \in Movers : WaitAfterBS(t)
    \/ \E t \in Movers : WaitAfterSC(t)
    \/ \E t \in Movers : RestoreAcc(t)
    \/ \E t \in Movers : RestoredAcc(t)
    \/ \E t \in Movers : RestoreDec(t)
    \/ \E t \in Movers : RestoredDec(t)
    \/ \E t \in Movers : commSendWrite(t)
    \/ \E t \in Movers : commSendRead(t)
    \/ DevStart
    \/ DevFinish

SpecArgs == InitArgs /\ [][NextArgs]_vars

\* ----------------------------------------------------------------- SpecPos
\* ResetZeroPosition and Position, on controllers at positions over the
\* whole 32-bit range (305419896 is 0x12345678) and with transport faults
PosInputs == {0, 1, -1, 65536, -65536, 305419896, Max32, Min32}
PosSteps == {1, 2, 200}

InitPos ==
    /\ InitWire
    /\ InitThreads
    /\ \E n \in PosSteps : cfg = [Cfg0 EXCEPT !.stepsPerRev = n]
    /\ \E p \in PosInputs : dev = DevAt(100 * Unit, 100 * Unit, p)
    /\ extraIn = NoExtra
    /\ callIn \in [Movers -> [rpm : RpmInputs, revs : RevInputs]]
    /\ quota = [t \in Threads |-> MaxCalls]
    /\ confIn = ConfInputs

NextPos ==
    \/ \E t \in Threads : Position(t)
    \/ \E t \in Threads : PositionLock(t)
    \/ \E t \in Threads : PositionDone(t)
    \/ \E t \in Threads : ResetZeroPosition(t)
    \/ \E t \in Threads : ResetLock(t)
    \/ \E t \in Threads : ResetAfterEP(t)
    \/ \E t \in Threads : ResetAfterSP(t)
    \/ \E t \in Threads : commSendWrite(t)
    \/ \E t \in Threads : commWriteFault(t)
    \/ \E t \in Threads : commSendRead(t)
    \/ \E t \in Threads : commReadFault(t)

SpecPos == InitPos /\ [][NextPos]_vars

\* ================================================================ SpecClose
\* Close and Reconfigure in sequence, next to a status poll: the owner of the
\* motor starts up to AdminCalls operations
AdminCalls == 3

InitClose ==
    /\ InitWire
    /\ InitMotion
    /\ dev = DevIdle(100 * Unit, 100 * Unit)
    /\ extraIn = NoExtra
    /\ callIn = [t \in Movers |-> [rpm |-> 600, revs |-> Unit]]
    /\ quota = [t \in Threads |-> IF t = Admin THEN AdminCalls
                                  ELSE IF t = Poller THEN MaxCalls ELSE 0]
    /\ confIn = ConfInputs

NextClose ==
    \/ \E t \in Threads : Reconfigure(t)
    \/ \E t \in Threads : ReconfigureLock(t)
    \/ \E t \in Threads : ReconfigureOpen(t)
    \/ \E t \in Threads : ReconfigureAfterAC(t)
    \/ \E t \in Threads : ReconfigureAfterDE(t)
    \/ \E t \in Threads : ReconfigureAfterAM(t)
    \/ \E t \in Threads : Close(t)
    \/ \E t \in Threads : CloseLock(t)
    \/ \E t \in Threads : CloseAfterSJ(t)
    \/ \E t \in Threads : IsMoving(t)
    \/ \E t \in Threads : IsMovingBegin(t)
    \/ \E t \in Threads : IsMovingDone(t)
    \/ \E t \in Threads : commSendWrite(t)
    \/ \E t \in Threads : commSendRead(t)
    \/ \E t \in Threads : Panic(t)

SpecClose == InitClose /\ [][NextClose]_vars

\* ================================================================ SpecNew
\* construction, Reconfigure and Close in sequence, with every protocol name
\* and with transport faults
Protocols ==
    { ProtoIp, <<73, 80>>, ProtoRs485, <<82, 83, 50, 51, 50>>, ProtoCan, <<67, 97, 110>>,
      <<117, 115, 98>>, <<>> }

NewConfs == { Conf(p, a, o) : p \in Protocols, a \in {0, 100 * Unit}, o \in BOOLEAN }

\* the fields of an st before its first Reconfigure
CfgZero == [stepsPerRev |-> 0, accelLimits |-> NoLimit, decelLimits |-> NoLimit,
            rpmLimits |-> NoLimit, defaultAccel |-> 0, defaultDecel |-> 0]

\* no motor yet: newMotor is the owner's first call
InitNew ==
    /\ InitWire
    /\ mu = None
    /\ comm = NoComm
    /\ handle = [s \in Sessions |-> "unopened"]
    /\ cmu = [s \in Sessions |-> None]
    /\ pc = [t \in Threads |-> "idle"]
    /\ args = [t \in Threads |-> NoArgs]
    /\ loc = [t \in Threads |-> Loc0]
    /\ snd = [t \in Threads |-> NoSend]
    /\ ret = [t \in Threads |-> NoRet]
    /\ cancelled = [t \in Threads |-> FALSE]
    /\ log = [t \in Threads |-> <<>>]
    /\ ghost = [t \in Threads |-> Ghost0]
    /\ calls = [t \in Threads |-> 0]
    /\ faults = 0
    /\ cfg = CfgZero
    /\ dev = DevIdle(100 * Unit, 100 * Unit)
    /\ extraIn = NoExtra
    /\ callIn = [t \in Movers |-> [rpm |-> 600, revs |-> Unit]]
    /\ quota = [t \in Threads |-> IF t = Admin THEN AdminCalls ELSE 0]
    /\ confIn = NewConfs

NextNew ==
    \/ \E t \in Threads : newMotor(t)
    \/ \E t \in Threads : Reconfigure(t)
    \/ \E t \in Threads : ReconfigureLock(t)
    \/ \E t \in Threads : ReconfigureOpen(t)
    \/ \E t \in Threads : ReconfigureAfterAC(t)
    \/ \E t \in Threads : ReconfigureAfterDE(t)
    \/ \E t \in Threads : ReconfigureAfterAM(t)
    \/ \E t \in Threads : Close(t)
    \/ \E t \in Threads : CloseLock(t)
    \/ \E t \in Threads : CloseAfterSJ(t)
    \/ \E t \in Threads : commSendWrite(t)
    \/ \E t \in Threads : commWriteFault(t)
    \/ \E t \in Threads : commRejected(t)
    \/ \E t \in Threads : commSendRead(t)
    \/ \E t \in Threads : commReadFault(t)
    \/ \E t \in Threads : Panic(t)

SpecNew == InitNew /\ [][NextNew]_vars

\* ============================================================== SpecStatus
\* status polls from outside next to one move, on a controller that may
\* answer one SC with any of StatusTexts
StatusCalls == 2

InitStatus ==
    /\ InitWire
    /\ InitMotion
    /\ dev = DevIdle(100 * Unit, 100 * Unit)
    /\ extraIn = [acc |-> F64(10 * Unit), dec |-> Absent]
    /\ callIn = [t \in Movers |-> [rpm |-> 600, revs |-> Unit]]
    /\ quota = [t \in Threads |-> IF t = Poller THEN StatusCalls
                                  ELSE IF t = Mover THEN MaxCalls ELSE 0]
    /\ confIn = ConfInputs

NextStatus ==
    \/ \E t \in Threads : IsMoving(t)
    \/ \E t \in Threads : IsMovingBegin(t)
    \/ \E t \in Threads : IsMovingDone(t)
    \/ \E t \in Threads : IsPowered(t)
    \/ \E t \in Threads : IsPoweredBegin(t)
    \/ \E t \in Threads : IsPoweredDone(t)
    \/ \E t \in Threads : GoFor(t)
    \/ \E t \in Threads : MoveLock(t)
    \/ \E t \in Threads : MoveAfterSJ(t)
    \/ \E t \in Threads, k \in Keys : OverrideKey(t, k)
    \/ \E t \in Threads, k \in Keys : OverrideQueried(t, k)
    \/ \E t \in Threads, k \in Keys : OverrideStored(t, k)
    \/ \E t \in Threads : MoveConfigure(t)
    \/ \E t \in Threads : MoveAfterDI(t)
    \/ \E t \in Threads : MoveAfterVE(t)
    \/ \E t \in Threads : MoveAfterStart(t)
    \/ \E t \in Threads : WaitSelect(t)
    \/ \E t \in Threads : WaitAfterBS(t)
    \/ \E t \in Threads : WaitAfterSC(t)
    \/ \E t \in Threads : WaitStatusPanic(t)
    \/ \E t \in Threads : RestoreAcc(t)
    \/ \E t \in Threads : RestoredAcc(t)
    \/ \E t \in Threads : RestoreDec(t)
    \/ \E t \in Threads : commSendWrite(t)
    \/ \E t \in Threads : commOddStatus(t)
    \/ \E t \in Threads : commSendRead(t)
    \/ DevStart
    \/ DevFinish

SpecStatus == InitStatus /\ [][NextStatus]_vars

\* ------------------------------------------------------------------ SpecDo
\* DoCommand called by two threads, next to Position, with transport faults
\* and commands the controller rejects
InitDo ==
    /\ InitWire
    /\ InitThreads
    /\ cfg = Cfg0
    /\ \E p \in {0, -1} : dev = DevAt(100 * Unit, 100 * Unit, p)
    /\ extraIn = NoExtra
    /\ callIn = [t \in Movers |-> [rpm |-> 600, revs |-> Unit]]
    /\ quota = [t \in Threads |-> IF t \in {Admin, Poller} THEN MaxCalls ELSE 0]
    /\ confIn = ConfInputs

NextDo ==
    \/ \E t \in Threads : DoCommand(t)
    \/ \E t \in Threads : DoCommandLock(t)
    \/ \E t \in Threads : DoCommandDone(t)
    \/ \E t \in Threads : commSendWrite(t)
    \/ \E t \in Threads : commWriteFault(t)
    \/ \E t \in Threads : commRejected(t)
    \/ \E t \in Threads : commSendRead(t)
    \/ \E t \in Threads : commReadFault(t)

SpecDo == InitDo /\ [][NextDo]_vars

\* ---------------------------------------------------------------- SpecWait
\* one caller's GoFor with both overrides on a controller that starts and
\* finishes the move when it will, a caller's context that may be cancelled
\* at any point, and reads that may fail
InitWait ==
    /\ InitWire
    /\ InitMotion
    /\ dev = DevIdle(100 * Unit, 100 * Unit)
    /\ extraIn = [acc |-> F64(10 * Unit), dec |-> F64(20 * Unit + 4)]
    /\ callIn = [t \in Movers |-> [rpm |-> 600, revs |-> Unit]]
    /\ quota = [t \in Threads |-> IF t = Mover THEN MaxCalls ELSE 0]
    /\ confIn = ConfInputs

NextWait ==
    \/ \E t \in {Mover} : GoFor(t)
    \/ \E t \in {Mover} : Cancel(t)
    \/ \E t \in {Mover} : MoveLock(t)
    \/ \E t \in {Mover} : MoveAfterSJ(t)
    \/ \E t \in {Mover}, k \in Keys : OverrideKey(t, k)
    \/ \E t \in {Mover}, k \in Keys : OverrideQueried(t, k)
    \/ \E t \in {Mover}, k \in Keys : OverrideStored(t, k)
    \/ \E t \in {Mover} : MoveConfigure(t)
    \/ \E t \in {Mover} : MoveAfterDI(t)
    \/ \E t \in {Mover} : MoveAfterVE(t)
    \/ \E t \in {Mover} : MoveAfterStart(t)
    \/ \E t \in {Mover} : WaitSelect(t)
    \/ \E t \in {Mover} : WaitStopped(t)
    \/ \E t \in {Mover} : WaitAfterBS(t)
    \/ \E t \in {Mover} : WaitAfterSC(t)
    \/ \E t \in {Mover} : RestoreAcc(t)
    \/ \E t \in {Mover} : RestoredAcc(t)
    \/ \E t \in {Mover} : RestoreDec(t)
    \/ \E t \in {Mover} : RestoredDec(t)
    \/ \E t \in {Mover} : commSendWrite(t)
    \/ \E t \in {Mover} : commSendRead(t)
    \/ \E t \in {Mover} : commReadFault(t)
    \/ DevStart
    \/ DevFinish

SpecWait == InitWait /\ [][NextWait]_vars

\* a step of the wait loop of t, and a step of the round trip t is in
WaitStep(t) == WaitSelect(t) \/ WaitAfterBS(t) \/ WaitAfterSC(t) \/ WaitStopped(t)
RoundTrip(t) == commSendWrite(t) \/ commSendRead(t)

\* fairness: the wait's goroutine is scheduled, its 100 ms timer fires, and every
\* round trip of the transport returns (with a response or with an error);
\* nothing is assumed of the controller finishing or of the caller
\* cancelling
FairWait == WF_vars(WaitStep(Mover)) /\ WF_vars(RoundTrip(Mover))

LiveWait == SpecWait /\ FairWait
\* ---------------------------------------------------------------- SpecLock
\* two callers' GoFor with the acceleration overridden, the first caller's
\* context cancelled at any point, reads that may fail, and a status query
\* beside them: the coarse lock and the transport lock under contention on
\* the return paths of a move
InitLock ==
    /\ InitWire
    /\ InitMotion
    /\ dev = DevIdle(100 * Unit, 100 * Unit)
    /\ extraIn = [acc |-> F64(10 * Unit), dec |-> Absent]
    /\ callIn = [t \in Movers |-> [rpm |-> 600, revs |-> Unit]]
    /\ quota = [t \in Threads |-> IF t = Admin THEN 0 ELSE MaxCalls]
    /\ confIn = ConfInputs

NextLock ==
    \/ \E t \in Movers : GoFor(t)
    \/ Cancel(Mover)
    \/ \E t \in Movers : MoveLock(t)
    \/ \E t \in Movers : MoveAfterSJ(t)
    \/ \E t \in Movers, k \in Keys : OverrideKey(t, k)
    \/ \E t \in Movers, k \in Keys : OverrideQueried(t, k)
    \/ \E t \in Movers, k \in Keys : OverrideStored(t, k)
    \/ \E t \in Movers : MoveConfigure(t)
    \/ \E t \in Movers : MoveAfterDI(t)
    \/ \E t \in Movers : MoveAfterVE(t)
    \/ \E t \in Movers : MoveAfterStart(t)
    \/ \E t \in Movers : WaitSelect(t)
    \/ \E t \in Movers : WaitStopped(t)
    \/ \E t \in Movers : WaitAfterBS(t)
    \/ \E t \in Movers : WaitAfterSC(t)
    \/ \E t \in Movers : RestoreAcc(t)
    \/ \E t \in Movers : RestoredAcc(t)
    \/ \E t \in Movers : RestoreDec(t)
    \/ IsMoving(Poller)
    \/ IsMovingBegin(Poller)
    \/ IsMovingDone(Poller)
    \/ \E t \in Threads : commSendWrite(t)
    \/ \E t \in Threads : commSendRead(t)
    \/ \E t \in Threads : commReadFault(t)
    \/ DevStart
    \/ DevFinish

SpecLock == InitLock /\ [][NextLock]_vars

\* ---------------------------------------------------------------- SpecStop
\* one caller's GoFor or GoTo without extras and, beside it, Stop called
\* from another thread at any point; no faults and no cancellation
InitStop ==
    /\ InitWire
    /\ InitMotion
    /\ dev = DevIdle(100 * Unit, 100 * Unit)
    /\ extraIn = NoExtra
    /\ callIn = [t \in Movers |-> [rpm |-> 600, revs |-> Unit]]
    /\ quota = [t \in Threads |-> IF t \in {Mover, Poller} THEN MaxCalls ELSE 0]
    /\ confIn = ConfInputs

NextStop ==
    \/ GoFor(Mover)
    \/ GoTo(Mover)
    \/ MoveLock(Mover)
    \/ MoveAfterSJ(Mover)
    \/ \E k \in Keys : OverrideKey(Mover, k)
    \/ MoveConfigure(Mover)
    \/ MoveAfterDI(Mover)
    \/ MoveAfterVE(Mover)
    \/ MoveAfterStart(Mover)
    \/ WaitSelect(Mover)
    \/ WaitAfterBS(Mover)
    \/ WaitAfterSC(Mover)
    \/ RestoreAcc(Mover)
    \/ RestoreDec(Mover)
    \/ Stop(Poller)
    \/ StopDone(Poller)
    \/ \E t \in {Mover, Poller} : commSendWrite(t)
    \/ \E t \in {Mover, Poller} : commSendRead(t)
    \/ DevStart
    \/ DevFinish

SpecStop == InitStop /\ [][NextStop]_vars


\* -------------------------------------------------------------- SpecReconf
\* Reconfigure of a live motor with a configuration whose stepsPerRev and
\* rpm limits differ from the motor's and whose transport may fail to open;
\* beside and after it a GoFor, Stop, IsMoving and Close
ReconfConfs ==
    { [Conf(ProtoIp, a, o) EXCEPT !.stepsPerRev = 4, !.rpmLimits = [min |-> 0, max |-> 600]] :
          a \in {0, 100 * Unit}, o \in BOOLEAN }

InitReconf ==
    /\ InitWire
    /\ InitMotion
    /\ dev = DevIdle(100 * Unit, 100 * Unit)
    /\ extraIn = NoExtra
    /\ callIn = [t \in Movers |-> [rpm |-> 600, revs |-> Unit]]
    /\ quota = [t \in Threads |-> IF t = Admin THEN AdminCalls
                                  ELSE IF t \in {Mover, Poller} THEN MaxCalls ELSE 0]
    /\ confIn = ReconfConfs

NextReconf ==
    \/ Reconfigure(Admin)
    \/ ReconfigureLock(Admin)
    \/ ReconfigureOpen(Admin)
    \/ ReconfigureAfterAC(Admin)
    \/ ReconfigureAfterDE(Admin)
    \/ ReconfigureAfterAM(Admin)
    \/ Close(Admin)
    \/ CloseLock(Admin)
    \/ CloseAfterSJ(Admin)
    \/ GoFor(Mover)
    \/ MoveLock(Mover)
    \/ MoveAfterSJ(Mover)
    \/ \E k \in Keys : OverrideKey(Mover, k)
    \/ MoveConfigure(Mover)
    \/ MoveAfterDI(Mover)
    \/ MoveAfterVE(Mover)
    \/ MoveAfterStart(Mover)
    \/ WaitSelect(Mover)
    \/ WaitAfterBS(Mover)
    \/ WaitAfterSC(Mover)
    \/ RestoreAcc(Mover)
    \/ RestoreDec(Mover)
    \/ IsMoving(Poller)
    \/ IsMovingBegin(Poller)
    \/ IsMovingDone(Poller)
    \/ Stop(Poller)
    \/ StopDone(Poller)
    \/ \E t \in {Admin, Mover, Poller} : commSendWrite(t)
    \/ \E t \in {Admin, Mover, Poller} : commSendRead(t)
    \/ \E t \in {Admin, Mover, Poller} : Panic(t)
    \/ DevStart
    \/ DevFinish

SpecReconf == InitReconf /\ [][NextReconf]_vars
\* ------------------------------------------------------------------ C1
\* C1: wire round trips are atomic. Between a caller's write of its framed
\* command and that caller's read of the response no other caller touches
\* the stream: every read in the access log directly follows the write of
\* the same request, and a write is directly followed only by the read of
\* the same request.
C1_RoundTripsAtomic ==
    /\ \A i \in 1..Len(wlog) :
         wlog[i].what = "r" =>
            /\ i > 1
            /\ wlog[i-1].what = "w"
            /\ wlog[i-1].req = wlog[i].req
            /\ wlog[i-1].who = wlog[i].who
    /\ \A c \in Callers : wpc[c] = "read" =>
            /\ wlog # <<>>
            /\ wlog[Len(wlog)] = [who |-> c, what |-> "w", req |-> wreq[c]]

\* two callers were inside send at once (one waiting for the lock while the
\* other is between its write and its read) and both round trips finished
C1_Witness ==
    /\ \E c, d \in Callers : c # d /\ wpc[c] = "read" /\ wpc[d] = "lock"
    /\ Len(wlog) >= 3

\* ------------------------------------------------------------------ C2
\* C2: the payload a successful send(c) returns is the response the device
\* produced for that same request.
C2_NoMisattribution ==
    \A c \in Callers :
        (wpc[c] = "done" /\ wres[c].ok) =>
            /\ Vals(wres[c].payload) \in {AckText, NakText}
            /\ \A i \in 1..Len(wres[c].payload) : wres[c].payload[i].req = wreq[c]

\* ------------------------------------------------------ notions of the claims
\* positions of a move between its first wire command and its return
MovePcs ==
    {"mv_sj", "ov_acc", "ov_acc_q", "ov_acc_s", "ov_dec", "ov_dec_q", "ov_dec_s",
     "mv_cfg", "mv_di", "mv_ve", "mv_start", "wait_sel", "wait_sk", "wait_bs", "wait_sc",
     "rs_acc", "rs_acc_s", "rs_dec", "rs_dec_s"}

InMove(t) == pc[t] \in MovePcs

\* positions of a thread that has not entered, or has left, the coarse lock
OutsidePcs == {"idle", "done", "mv_lock", "rc_lock", "cl_lock"}

\* the wait of t's move has returned
WaitOver(t) ==
    /\ ghost[t].started
    /\ pc[t] \in {"rs_acc", "rs_acc_s", "rs_dec", "rs_dec_s", "done"}

\* t's move has returned
MoveDone(t) == pc[t] = "done" /\ args[t].op \in {"GoFor", "GoTo"}

CancelErr == Err("cancelled", "")

\* the controller's register behind an override key
DevReg(k) == IF k = "acc" THEN dev.AC ELSE dev.DE

C4_UnwoundOnError ==
    \A t \in Movers : \A k \in Keys :
        ( /\ MoveDone(t)
          /\ ret[t].kind = "err"
          /\ ~ghost[t].started
          /\ ghost[t].wrote[k]
          /\ ghost[t].prior[k] # 0 ) => DevReg(k) = ghost[t].prior[k]

\* ------------------------------------------------------------------ C5
\* C5: on a controller whose acceleration and deceleration are both
\* nonzero, a move that overrides both and returns without error leaves
\* both registers at the values they had when the move began.
C5_OverrideRoundTrip ==
    \A t \in Movers :
        ( /\ MoveDone(t)
          /\ ret[t].kind = "ok"
          /\ \A k \in Keys : args[t].extra[k].kind = "f64" /\ ghost[t].prior[k] # 0 )
        => \A k \in Keys : DevReg(k) = ghost[t].prior[k]

\* a completed move that overrode both registers with other values
C5_Witness ==
    \E t \in Movers :
        /\ MoveDone(t)
        /\ ret[t].kind = "ok"
        /\ ghost[t].started
        /\ \A k \in Keys :
             /\ args[t].extra[k].kind = "f64"
             /\ ghost[t].wrote[k]
             /\ ghost[t].prior[k] # 0
             /\ Fmt4(args[t].extra[k].v) # ghost[t].prior[k]

\* ------------------------------------------------------------------ C6
\* C6: the wait returns nil only in an iteration whose BS reply was 63 and
\* whose SC reply had bit 4 of the low status byte clear.
C6_CompletionNeedsBoth ==
    \A t \in Movers :
        (WaitOver(t) /\ loc[t].waitErr = Nil) =>
            /\ ghost[t].bsIter = loc[t].polls
            /\ ghost[t].scIter = loc[t].polls
            /\ ghost[t].lastBS = 63
            /\ (ghost[t].lastSC \div 16) % 2 = 0

\* the wait returned nil in its second iteration, the first having seen a
\* move still in progress
C6_Witness ==
    \E t \in Movers :
        /\ WaitOver(t)
        /\ loc[t].waitErr = Nil
        /\ loc[t].polls = 2

\* ------------------------------------------------------------------ C7
\* C7 as stated: whenever the ctx was cancelled while the move was waiting,
\* the wait sent SK exactly once and returned the cancellation error.
C7_CancelInWaitStops ==
    \A t \in Movers :
        (WaitOver(t) /\ ghost[t].cancelInWait) =>
            /\ ghost[t].sk = 1
            /\ loc[t].waitErr = CancelErr

\* C7 amended: the wait sends SK at most once; when its select saw the
\* cancelled ctx it sent SK exactly once and returned the cancellation
\* error; when it did not (the cancellation arrived during the last poll) it
\* sent no SK and returned that poll's outcome.
C7_ObservedCancelStops ==
    \A t \in Movers :
        /\ ghost[t].sk <= 1
        /\ (WaitOver(t) /\ ghost[t].sawCancel) =>
               /\ ghost[t].sk = 1
               /\ loc[t].waitErr = CancelErr
        /\ (WaitOver(t) /\ ~ghost[t].sawCancel) =>
               /\ ghost[t].sk = 0
               /\ loc[t].waitErr # CancelErr

\* a cancellation during the wait that the select saw
C7_Witness ==
    \E t \in Movers :
        /\ WaitOver(t)
        /\ ghost[t].cancelInWait
        /\ ghost[t].sawCancel
        /\ ghost[t].sk = 1

\* ------------------------------------------------------------------ C8
\* C8: while a move is between its first wire command and its return it
\* holds the coarse lock, no other move and no Reconfigure or Close is past
\* its own lock acquisition, and the session is the one the move began
\* with, its handle neither closed nor replaced.
C8_MovesExclusive ==
    \A t \in Movers :
        InMove(t) =>
            /\ mu = t
            /\ \A u \in (Movers \cup {Admin}) \ {t} : pc[u] \in OutsidePcs
            /\ comm = ghost[t].sess
            /\ (comm # NoComm => handle[comm] = ghost[t].hstate)

\* a move on an open session is in flight while the other move and a
\* Reconfigure or Close are both waiting for the lock
C8_Witness ==
    \E t \in Movers :
        /\ InMove(t)
        /\ comm # NoComm
        /\ handle[comm] = "open"
        /\ \A u \in Movers \ {t} : pc[u] = "mv_lock"
        /\ pc[Admin] \in {"rc_lock", "cl_lock"}

\* ------------------------------------------------------------------ C9
\* the next step of the poller's status query can be taken now, or waits
\* only for the round trip another thread has in progress on the session
StatusQueryNotBlocked ==
    \/ ENABLED commSendWrite(Poller)
    \/ ENABLED commSendRead(Poller)
    \/ ENABLED Panic(Poller)
    \/ ENABLED IsMovingDone(Poller)
    \/ ENABLED IsPoweredDone(Poller)
    \/ /\ snd[Poller].phase = "write"
       /\ \E u \in Threads \ {Poller} :
            /\ cmu[snd[Poller].sess] = u
            /\ ENABLED commSendRead(u)

\* C9: IsMoving and IsPowered never hold or wait for the coarse lock: a
\* call can always begin, its status query waits for nothing but one
\* transport round trip, and IsMoving returns true exactly when the
\* controller was moving as it answered.
C9_StatusBypassesLock ==
    /\ mu # Poller
    /\ (pc[Poller] = "im_call" => ENABLED IsMovingBegin(Poller))
    /\ (pc[Poller] = "ip_call" => ENABLED IsPoweredBegin(Poller))
    /\ (pc[Poller] \in {"im_sc", "ip_sc"} => StatusQueryNotBlocked)
    /\ ( /\ pc[Poller] = "done"
         /\ args[Poller].op = "IsMoving"
         /\ ret[Poller].kind = "ok" ) => (ret[Poller].val = ghost[Poller].devMoving)

\* IsMoving returned true while a move was in its wait, holding the lock
C9_Witness ==
    /\ pc[Poller] = "done"
    /\ args[Poller].op = "IsMoving"
    /\ ret[Poller] = Ret("ok", Nil, TRUE)
    /\ \E t \in Movers : mu = t /\ pc[t] \in {"wait_sel", "wait_bs", "wait_sc"}

\* ------------------------------------------------------------------ C10
\* a wire command without its value
Shape(c) == <<c.name, c.has>>

\* the commands an override of key k issues: the query, then the store
OverrideShape(x, k) ==
    IF x.kind = "f64" THEN << <<KeyCmd(k), FALSE>>, <<KeyCmd(k), TRUE>> >> ELSE <<>>

\* the commands of a move up to its start command, for the call's arguments
SetupShape(a) ==
    << <<"SJ", FALSE>> >> \o OverrideShape(a.extra.acc, "acc") \o OverrideShape(a.extra.dec, "dec")
       \o << <<"DI", TRUE>>, <<"VE", TRUE>>, <<IF a.op = "GoFor" THEN "FL" ELSE "FP", FALSE>> >>

\* C10: the commands a move has issued so far begin with SJ, the override
\* commands, DI with its steps, the VE store and the start command without
\* an argument (FL for GoFor, FP for GoTo), in this order, and BS and SC
\* appear only after these.
C10_CommandOrder ==
    \A t \in Movers :
        (InMove(t) \/ MoveDone(t)) =>
            LET H == SetupShape(args[t])
                L == log[t]
            IN  /\ \A i \in 1..Len(L) : i <= Len(H) => Shape(L[i]) = H[i]
                /\ \A i \in 1..Len(L) : L[i].name \in {"BS", "SC"} => i > Len(H)
                /\ \A i \in 1..Len(L) :
                     i > Len(H) => Shape(L[i]) \in {<<"BS", FALSE>>, <<"SC", FALSE>>,
                                                   <<"SK", FALSE>>, <<"AC", TRUE>>,
                                                   <<"DE", TRUE>>}

\* a GoTo with both overrides got as far as polling
C10_Witness ==
    \E t \in Movers :
        /\ args[t].op = "GoTo"
        /\ \A k \in Keys : args[t].extra[k].kind = "f64"
        /\ Len(log[t]) = 10
        /\ log[t][8] = Cmd("FP")
        /\ log[t][10] = Cmd("SC")


\* ------------------------------------------------------------------ C11
\* the commands of a log that are not the wait's BS and SC polls
NoPolls(l) == SelectSeq(l, LAMBDA c : c.name \notin {"BS", "SC"})

\* the VE commands of a log
Velocities(l) == SelectSeq(l, LAMBDA c : c.name = "VE")

\* C11: a GoFor never writes a negative VE speed, and GoFor(-r, d) issues the
\* same wire commands as GoFor(r, -d) for every r > 0 and d: apart from the
\* number of BS/SC polls, which follows the controller's timing, the two
\* command sequences are equal, and they are equal altogether when both
\* waits polled equally often.
C11_NegativeRpmFlipsSteps ==
    /\ \A t \in Movers :
         args[t].op = "GoFor" =>
             \A i \in 1..Len(Velocities(log[t])) : Velocities(log[t])[i].arg >= 0
    /\ \A t \in Movers, u \in Movers :
         ( /\ MoveDone(t) /\ MoveDone(u)
           /\ args[t].op = "GoFor" /\ args[u].op = "GoFor"
           /\ args[u].rpm > 0
           /\ args[t].rpm = -args[u].rpm
           /\ args[t].revs = -args[u].revs ) =>
               /\ NoPolls(log[t]) = NoPolls(log[u])
               /\ (Len(log[t]) = Len(log[u]) => log[t] = log[u])

\* GoFor(-1000, 1) and GoFor(1000, -1) both ran to the end without limits:
\* each sent DI-2 and stored VE16.6667
C11_Witness ==
    /\ MoveDone("m1") /\ MoveDone("m2")
    /\ args["m1"].op = "GoFor" /\ args["m2"].op = "GoFor"
    /\ args["m1"].rpm = -1000 /\ args["m1"].revs = Unit
    /\ args["m2"].rpm = 1000 /\ args["m2"].revs = -Unit
    /\ cfg.rpmLimits = NoLimit
    /\ ret["m1"].kind = "ok" /\ ret["m2"].kind = "ok"
    /\ \E i \in 1..Len(log["m1"]) : log["m1"][i] = CmdV("DI", -2)
    /\ \E i \in 1..Len(log["m1"]) : log["m1"][i] = CmdV("VE", 1666670)

\* ------------------------------------------------------------------ C12
\* the clamp the limits are specified by, case by case
RefClamp(min, max, v) ==
    CASE v = 0 -> 0
      [] v # 0 /\ min # 0 /\ v < min -> min
      [] v # 0 /\ ~(min # 0 /\ v < min) /\ max # 0 /\ v > max -> max
      [] OTHER -> v

\* the rpm configuredMove is entered with: GoFor has negated a negative one
EnteredRpm(a) == IF a.op = "GoFor" /\ a.rpm < 0 THEN -a.rpm ELSE a.rpm

\* positions of a move after Bound was applied to the extras, and after it
\* was applied to the rpm
PastExtraBound == MovePcs \ {"mv_sj"}
PastRpmBound == PastExtraBound \ {"ov_acc", "ov_acc_q", "ov_acc_s", "ov_dec", "ov_dec_q", "ov_dec_s",
                                  "mv_cfg"}

\* C12: every value Bound returned in a move is the reference clamp of its
\* argument under the limits it was called on (0 for 0, min below a nonzero
\* min, else max above a nonzero max, else the value itself), and the three
\* limits are what they were when the move began.
C12_BoundIsClamp ==
    \A t \in Movers :
        /\ InMove(t) => <<cfg.accelLimits, cfg.decelLimits, cfg.rpmLimits>> = ghost[t].limits
        /\ pc[t] \in PastRpmBound =>
               loc[t].rpm = RefClamp(cfg.rpmLimits.min, cfg.rpmLimits.max, EnteredRpm(args[t]))
        /\ pc[t] \in PastExtraBound =>
               /\ args[t].extra.acc.kind = "f64" =>
                      loc[t].extra.acc = F64(RefClamp(cfg.accelLimits.min, cfg.accelLimits.max,
                                                      args[t].extra.acc.v))
               /\ args[t].extra.dec.kind = "f64" =>
                      loc[t].extra.dec = F64(RefClamp(cfg.decelLimits.min, cfg.decelLimits.max,
                                                      args[t].extra.dec.v))

\* under limits with both bounds set, a move had its rpm of 1000 bounded to
\* the maximum and its deceleration of 10 to the minimum
C12_Witness ==
    /\ cfg.rpmLimits = [min |-> 300, max |-> 900]
    /\ \E t \in Movers :
         /\ pc[t] \in PastRpmBound
         /\ EnteredRpm(args[t]) = 1000 /\ loc[t].rpm = 900
         /\ args[t].extra.dec = F64(10 * Unit) /\ loc[t].extra.dec = F64(30 * Unit)

\* ------------------------------------------------------------------ C13
\* the setpoint commands of a move's setup: its VE and its override stores
SetupSetpoints(t) ==
    { i \in 1..Len(log[t]) : i <= Len(SetupShape(args[t])) /\ log[t][i].has
                             /\ log[t][i].name \in {"VE", "AC", "DE"} }

\* the value a setup command of that name must carry, times the divisor div
Setpoint(t, name) ==
    CASE name = "VE" -> [v |-> Bound(cfg.rpmLimits, EnteredRpm(args[t])) * Unit, div |-> SecPerMin]
      [] name = "AC" -> [v |-> Bound(cfg.accelLimits, args[t].extra.acc.v), div |-> 1]
      [] name = "DE" -> [v |-> Bound(cfg.decelLimits, args[t].extra.dec.v), div |-> 1]

Abs(x) == IF x < 0 THEN -x ELSE x

\* C13 as stated: the VE value is exactly Bound_rpm(rpm)/60 and each AC/DE
\* override value exactly the bounded extras value.
C13_SetpointsAreBounds ==
    \A t \in Movers : \A i \in SetupSetpoints(t) :
        LET s == Setpoint(t, log[t][i].name)
        IN  log[t][i].arg * s.div = s.v

\* C13, amended: every setpoint of a move's setup is its bounded request
\* written with four decimals: VE is Bound_rpm(rpm)/60 rounded to a multiple
\* of 0.0001, rpm being the speed after GoFor's negation, and each AC/DE
\* override is the bounded extras value rounded to a multiple of 0.0001.
C13_SetpointsAreRoundedBounds ==
    \A t \in Movers : \A i \in SetupSetpoints(t) :
        LET s == Setpoint(t, log[t][i].name)
        IN  /\ log[t][i].arg % 10 = 0
            /\ Abs(log[t][i].arg * s.div - s.v) <= 5 * s.div

\* under limits with both bounds set, a finished move asked for 1000 rpm and
\* a deceleration of 10: it stored DE30.0000 and VE15.0000
C13_Witness ==
    \E t \in Movers :
        /\ MoveDone(t) /\ ret[t].kind = "ok"
        /\ cfg.rpmLimits = [min |-> 300, max |-> 900]
        /\ EnteredRpm(args[t]) = 1000
        /\ args[t].extra.dec = F64(10 * Unit)
        /\ \E i \in SetupSetpoints(t) : log[t][i] = CmdV("DE", 30 * Unit)
        /\ \E i \in SetupSetpoints(t) : log[t][i] = CmdV("VE", 15 * Unit)

\* ------------------------------------------------------------------ C14
\* a Position that returned a value after a ResetZeroPosition returned nil,
\* with no other ResetZeroPosition since
ResetThenPosition(q, r) ==
    /\ pc[q] = "done" /\ args[q].op = "Position" /\ ret[q].kind = "ok"
    /\ pc[r] = "done" /\ args[r].op = "ResetZeroPosition" /\ ret[r].kind = "ok"
    /\ <<r, calls[r]>> \in ghost[q].seen

\* the offset's step count -offset * stepsPerRev is a whole number
WholeSteps(offset) == (offset * cfg.stepsPerRev) % Unit = 0

\* C14 as stated: Position after ResetZeroPosition(offset) returns -offset,
\* for every offset whose step count is in the 32-bit range.
C14_ResetRoundTrip ==
    \A q \in Threads, r \in Threads :
        ResetThenPosition(q, r) => ret[q].val = Quot(-args[r].offset, Unit)

\* C14, amended: Position after ResetZeroPosition(offset) returns -offset
\* when the offset is a whole number of steps (0.0 for 0, -1.0 for 1), and
\* otherwise the whole number of steps next to -offset on the side of zero,
\* in revolutions.
C14_ResetRoundTripInSteps ==
    \A q \in Threads, r \in Threads :
        ResetThenPosition(q, r) =>
            LET steps == ret[q].val.n * (cfg.stepsPerRev \div ret[q].val.d)
                x == (-args[r].offset) * cfg.stepsPerRev
            IN  /\ cfg.stepsPerRev % ret[q].val.d = 0
                /\ WholeSteps(args[r].offset) => ret[q].val = Quot(-args[r].offset, Unit)
                /\ x >= 0 => steps * Unit <= x /\ x < (steps + 1) * Unit
                /\ x <= 0 => steps * Unit >= x /\ x > (steps - 1) * Unit

\* at 2 steps per revolution, ResetZeroPosition(1) was followed by a
\* Position that returned -1
C14_Witness ==
    /\ cfg.stepsPerRev = 2
    /\ ResetThenPosition(Poller, Admin)
    /\ args[Admin].offset = Unit
    /\ dev.pos = -2
    /\ ret[Poller].val = [n |-> -1, d |-> 1]

\* ------------------------------------------------------------------ C15
\* what Position returns from a controller at position p
PositionAt(p) == positionOf([ok |-> TRUE, resp |-> DevHandle([dev EXCEPT !.pos = p], Cmd("IP")).resp],
                            cfg.stepsPerRev).v

\* a position in revolutions, in steps
StepsOf(v) == v.n * (cfg.stepsPerRev \div v.d)

\* the change of Position() over t's move
Moved(t) == Quot(StepsOf(PositionAt(dev.pos)) - StepsOf(PositionAt(ghost[t].pos0)),
                 cfg.stepsPerRev)

\* the number of the latest call of u that took the coarse lock, 0 when none
LastMove(u) ==
    IF pc[u] = "idle" THEN 0 ELSE IF pc[u] = "mv_lock" THEN calls[u] - 1 ELSE calls[u]

\* t's GoFor has returned nil, and no move began after it
LatestGoFor(t) ==
    /\ MoveDone(t) /\ args[t].op = "GoFor" /\ ret[t].kind = "ok"
    /\ \A u \in Movers \ {t} : LastMove(u) = 0 \/ <<u, LastMove(u)>> \in ghost[t].seen

\* u's GoFor followed t's, with the same rpm and the opposite distance
OppositePair(t, u) ==
    /\ LatestGoFor(u)
    /\ MoveDone(t) /\ args[t].op = "GoFor" /\ ret[t].kind = "ok"
    /\ <<t, calls[t]>> \in ghost[u].seen
    /\ calls[u] = 1 \/ <<u, calls[u] - 1>> \in ghost[t].seen
    /\ args[u].rpm = args[t].rpm
    /\ args[u].revs = -args[t].revs

\* C15 as stated: a completed GoFor(rpm, d) changes Position() by exactly d
\* revolutions, and a following GoFor(rpm, -d) returns it to its earlier
\* value.
C15_GoForMovesByDistance ==
    /\ \A t \in Movers : LatestGoFor(t) => Moved(t) = Quot(args[t].revs, Unit)
    /\ \A t \in Movers, u \in Movers :
         OppositePair(t, u) => PositionAt(dev.pos) = PositionAt(ghost[t].pos0)

\* C15, amended: a completed GoFor(rpm, d) changes Position() by the whole
\* number of steps next to d on the side of zero, forward for rpm >= 0 and
\* backward for rpm < 0: by exactly d when d is a whole number of steps and
\* rpm >= 0, by exactly -d when rpm < 0; a following GoFor(rpm, -d) returns
\* Position() to its earlier value.
C15_GoForMovesBySteps ==
    /\ \A t \in Movers :
         LatestGoFor(t) =>
             LET d == IF args[t].rpm < 0 THEN -args[t].revs ELSE args[t].revs
                 x == d * cfg.stepsPerRev
                 steps == StepsOf(Moved(t))
             IN  /\ WholeSteps(d) => Moved(t) = Quot(d, Unit)
                 /\ x >= 0 => steps * Unit <= x /\ x < (steps + 1) * Unit
                 /\ x <= 0 => steps * Unit >= x /\ x > (steps - 1) * Unit
    /\ \A t \in Movers, u \in Movers :
         OppositePair(t, u) => PositionAt(dev.pos) = PositionAt(ghost[t].pos0)

\* GoFor(600, 1) moved the controller from 0 to 1 revolution, and the
\* GoFor(600, -1) that followed it back to 0
C15_Witness ==
    /\ OppositePair("m1", "m2")
    /\ args["m1"].rpm = 600 /\ args["m1"].revs = Unit
    /\ ghost["m1"].pos0 = 0
    /\ PositionAt(ghost["m2"].pos0) = [n |-> 1, d |-> 1]
    /\ PositionAt(dev.pos) = [n |-> 0, d |-> 1]

\* ------------------------------------------------------------------ C16
\* the digit d of eight hexadecimal digits, weighted by its place
Place(ds, i) == ds[i] * 16 ^ (8 - i)

\* the number eight hexadecimal digits stand for in two's complement: the
\* digits' value when the first is below 8, otherwise minus the value of the
\* inverted digits, minus one
RefSigned(ds) ==
    IF ds[1] < 8
    THEN Place(ds, 1) + Place(ds, 2) + Place(ds, 3) + Place(ds, 4)
         + Place(ds, 5) + Place(ds, 6) + Place(ds, 7) + Place(ds, 8)
    ELSE LET inv == [i \in 1..8 |-> 15 - ds[i]]
         IN  (-(Place(inv, 1) + Place(inv, 2) + Place(inv, 3) + Place(inv, 4)
                + Place(inv, 5) + Place(inv, 6) + Place(inv, 7) + Place(inv, 8))) - 1

\* C16: the value a Position returns is the IP payload's eight hexadecimal
\* digits read as a 32-bit two's-complement number (h below 2^31 as h, h of
\* 2^31 or more as h - 2^32), divided by stepsPerRev; FFFFFFFF gives
\* -1/stepsPerRev.
C16_SignedDecode ==
    \A t \in Threads :
        (pc[t] = "done" /\ args[t].op = "Position" /\ ret[t].kind = "ok") =>
            /\ ghost[t].reply.k = "val"
            /\ Len(ghost[t].reply.v) = 8
            /\ ret[t].val = Quot(RefSigned(ghost[t].reply.v), cfg.stepsPerRev)
            /\ ghost[t].reply.v = <<15, 15, 15, 15, 15, 15, 15, 15>> =>
                   ret[t].val = [n |-> -1, d |-> cfg.stepsPerRev]

\* at 200 steps per revolution, a Position decoded FFFFFFFF to -1/200
C16_Witness ==
    \E t \in Threads :
        /\ pc[t] = "done" /\ args[t].op = "Position" /\ ret[t].kind = "ok"
        /\ ghost[t].reply.v = <<15, 15, 15, 15, 15, 15, 15, 15>>
        /\ cfg.stepsPerRev = 200
        /\ ret[t].val = [n |-> -1, d |-> 200]

\* ------------------------------------------------------------------ C17
\* the round trip succeeded and its payload is exactly "%" or "*"
Acknowledged(s) == s.ok /\ s.resp.k \in {"%", "*"}

\* C17: a store succeeds exactly when its send succeeded and the payload is
\* "%" or "*": after the VE store the move goes on to its start command in
\* that case and returns an error otherwise, and restore's write-back of AC
\* leaves no error in that case and an error otherwise.
C17_StoreNeedsAck ==
    [][\A t \in Movers :
         /\ (pc[t] = "mv_ve" /\ Returned(t) /\ pc'[t] # "mv_ve") =>
                IF Acknowledged(snd[t])
                THEN pc'[t] = "mv_start"
                ELSE pc'[t] = "done" /\ ret'[t].kind = "err" /\ Len(ret'[t].err) = 1
         /\ (pc[t] = "rs_acc_s" /\ Returned(t) /\ pc'[t] # "rs_acc_s") =>
                (loc'[t].acErr = Nil) = Acknowledged(snd[t])]_vars

\* a move returned the error of its VE store, whose send had succeeded with
\* the payload "?"
C17_Witness ==
    \E t \in Movers :
        /\ MoveDone(t)
        /\ ret[t].err = Err("nonack", "VE")
        /\ log[t][Len(log[t])].name = "VE"

\* ------------------------------------------------------------------ C18
\* the bytes of a character in a string (UTF-8, up to three bytes)
Utf8(v) ==
    IF v < 128 THEN <<v>>
    ELSE IF v < 2048 THEN <<192 + (v \div 64), 128 + (v % 64)>>
    ELSE <<224 + (v \div 4096), 128 + ((v \div 64) % 64), 128 + (v % 64)>>

\* the bytes of a command string
RECURSIVE BytesOf(_)
BytesOf(cmd) == IF cmd = <<>> THEN <<>> ELSE Utf8(Head(cmd)) \o BytesOf(Tail(cmd))

\* caller c's send wrote a whole packet, and it is 0x00 0x07, the bytes of
\* the command, 0x0D
WritesFramed(c) ==
    (wpc[c] \in {"read", "done"} /\ Len(wres[c].wrote) = 3 + ByteLen(wcmd[c])) =>
        wres[c].wrote = <<PRE0, PRE1>> \o BytesOf(wcmd[c]) \o <<CR>>

\* caller c's send read some bytes: it returned the payload p when they are
\* 0x00 0x07 p 0x0D, and an error and no payload when they are anything
\* else, of whatever length
ReturnsFramed(c) ==
    (wpc[c] = "done" /\ wres[c].got # <<>>) =>
        LET g == wres[c].got
        IN  IF Len(g) >= 3 /\ g[1] = PRE0 /\ g[2] = PRE1 /\ g[Len(g)] = CR
            THEN wres[c].ok /\ Vals(wres[c].payload) = SubSeq(g, 3, Len(g) - 1)
            ELSE ~wres[c].ok /\ wres[c].payload = <<>>

\* C18: send(c) writes exactly 0x00 0x07, the bytes of c, 0x0D, and returns
\* the payload p exactly when the bytes read are 0x00 0x07 p 0x0D; any other
\* bytes read, fewer than three included, give an error and no payload.
C18_SendFraming ==
    \A c \in Callers : WritesFramed(c) /\ ReturnsFramed(c)

\* what holds of C18: the read side, and the write side for commands of
\* ASCII characters
SendFramingAscii ==
    \A c \in Callers :
        /\ ReturnsFramed(c)
        /\ (\A i \in 1..Len(wcmd[c]) : wcmd[c][i] < 128) => WritesFramed(c)

\* ------------------------------------------------------------------ C19
\* caller c's send has returned after a Write that took fewer bytes than the
\* framed packet has
ShortWrite(c) ==
    /\ wpc[c] = "done"
    /\ Len(wres[c].wrote) < 3 + ByteLen(wcmd[c])

\* the Write and Read calls that caller c's current request made
CallsOf(c, what) ==
    {i \in DOMAIN wlog : wlog[i].who = c /\ wlog[i].req = wreq[c] /\ wlog[i].what = what}

\* C19: a short write is fatal and not retried: when the stream takes fewer
\* bytes than the framed packet has, send returns an error and no payload,
\* has read no response, and has made one Write call only (neither the
\* remaining bytes nor the packet again).
C19_ShortWriteFatal ==
    \A c \in Callers :
        ShortWrite(c) =>
            /\ wres[c].set /\ ~wres[c].ok /\ wres[c].payload = <<>>
            /\ wres[c].got = <<>>
            /\ CallsOf(c, "r") = {}
            /\ Cardinality(CallsOf(c, "w")) = 1
            /\ wmu # c

\* a send returned after the stream took a part of its packet, and the other
\* caller's send has since made its round trip
C19_Witness ==
    \E c, d \in Callers :
        /\ c # d
        /\ ShortWrite(c)
        /\ wres[c].wrote # <<>>
        /\ wpc[d] = "done" /\ wreq[d] > wreq[c] /\ wres[d].got # <<>>

\* ------------------------------------------------------------------ C20
\* thread t's Close has returned, having reached comms.Close
CloseReturned(t) ==
    /\ pc[t] = "done"
    /\ args[t].op = "Close"
    /\ ret[t].kind # "panic"

\* the outcome of comms.Close inside what Close returned: the error of
\* closing a handle that is closed already, or none
CloseOutcome(t) == {i \in DOMAIN ret[t].err : ret[t].err[i].e = "closed"}

\* C20: close is idempotent: a second close of a transport session leaves it
\* released and has the outcome of the first close (no error), the stream
\* handle not being closed a second time.
C20_CloseIdempotent ==
    \A t \in Threads :
        CloseReturned(t) => (handle[comm] = "closed" /\ CloseOutcome(t) = {})

\* what holds of C20: after every close the session is released
CloseReleases ==
    \A t \in Threads : CloseReturned(t) => handle[comm] = "closed"

\* ------------------------------------------------------------------ C21
\* the stream handles opened for the controller and not closed
OpenHandles == {s \in Sessions : handle[s] = "open"}

\* the owner's latest call has returned, and it was op
Last(op) == pc[Admin] = "done" /\ args[Admin].op = op

\* C21: exactly one session is alive per motor: through construction,
\* Reconfigure (succeeding or failing at any step) and Close there is never
\* more than one open stream handle (the old one is closed before the new
\* one is opened), there is one while the motor is live, and none after
\* Close or after a failed construction.
C21_OneLiveSession ==
    /\ Cardinality(OpenHandles) <= 1
    /\ (Last("newMotor") /\ ret[Admin].kind = "ok") => Cardinality(OpenHandles) = 1
    /\ Last("Reconfigure") => Cardinality(OpenHandles) = 1
    /\ Last("Close") => OpenHandles = {}
    /\ FailedNew => OpenHandles = {}

\* what holds of C21: never two open handles, s.comm the open one if any, one
\* after a construction or Reconfigure that returned nil, none after Close
OneSessionAtMost ==
    /\ Cardinality(OpenHandles) <= 1
    /\ OpenHandles \subseteq {comm}
    /\ (Last("newMotor") /\ ret[Admin].kind = "ok") => OpenHandles = {comm}
    /\ (Last("Reconfigure") /\ ret[Admin].kind = "ok") => OpenHandles = {comm}
    /\ Last("Close") => OpenHandles = {}

\* a construction that failed after its stream was opened
LeakedByNew == FailedNew /\ OpenHandles # {}

\* a Reconfigure that failed before a stream was opened
NoSessionAfterReconfigure == Last("Reconfigure") /\ OpenHandles = {} /\ comm = NoComm

\* ------------------------------------------------------------------ C22
\* the configured name p is the lower-case name, letter case apart
SameName(p, name) ==
    /\ Len(p) = Len(name)
    /\ \A i \in 1..Len(p) : p[i] = name[i] \/ (p[i] \in 65..90 /\ p[i] + 32 = name[i])

\* the owner's newMotor or Reconfigure has returned
Configured == Last("newMotor") \/ Last("Reconfigure")

\* C22: construction and Reconfigure fail, and open no stream, when the
\* protocol is none of ip, rs485, rs232, letter case apart: with the error
\* "unsupported comm type" for can and "unknown comm type" for any other name.
C22_ProtocolChecked ==
    Configured =>
        LET p == args[Admin].conf.protocol
        IN  /\ SameName(p, ProtoCan) =>
                /\ ret[Admin] = ErrRet(Err("unsupported comm type", ""))
                /\ OpenHandles = {} /\ comm = NoComm
            /\ (\A n \in {ProtoCan, ProtoIp, ProtoRs485, ProtoRs232} : ~SameName(p, n)) =>
                /\ ret[Admin] = ErrRet(Err("unknown comm type", ""))
                /\ OpenHandles = {} /\ comm = NoComm
            /\ (ret[Admin].kind = "err" /\ ret[Admin].err[1].e \in {"unsupported comm type",
                                                                     "unknown comm type"})
                  => \A n \in {ProtoIp, ProtoRs485, ProtoRs232} : ~SameName(p, n)

\* a Reconfigure of a live motor to protocol "Can" returned the unsupported
\* error and left no stream open
C22_Witness ==
    /\ Last("Reconfigure")
    /\ calls[Admin] = 2
    /\ args[Admin].conf.protocol = <<67, 97, 110>>
    /\ ret[Admin] = ErrRet(Err("unsupported comm type", ""))
    /\ handle[1] = "closed" /\ OpenHandles = {}

\* ------------------------------------------------------------------ C23
\* thread t's IsMoving or IsPowered has returned from an SC round trip that
\* brought a response
StatusPolled(t) ==
    /\ pc[t] = "done"
    /\ args[t].op \in {"IsMoving", "IsPowered"}
    /\ ghost[t].reply.k \in {"val", "text"}

\* the payload of a response text: what follows the first "=", up to the
\* first "{" after it when there is one
RefPayload(txt) ==
    LET rest == SubSeq(txt, Index(txt, 61) + 1, Len(txt))
    IN  IF Index(rest, 123) = 0 THEN rest ELSE SubSeq(rest, 1, Index(rest, 123) - 1)

HexDigits == (48..57) \cup (65..70) \cup (97..102)

\* the response carries a status word: an "=" and a payload of four
\* hexadecimal digits
RefHasWord(txt) ==
    /\ Index(txt, 61) # 0
    /\ Len(RefPayload(txt)) = 4
    /\ \A i \in 1..4 : RefPayload(txt)[i] \in HexDigits

\* the value of the last digit and the lowest bit of the digit before it:
\* bits 0..4 of the status word
RefLowBits(txt) ==
    LET val(c) == IF c <= 57 THEN c - 48 ELSE IF c <= 70 THEN c - 55 ELSE c - 87
    IN  16 * (val(RefPayload(txt)[3]) % 2) + val(RefPayload(txt)[4])

\* the answer of the operation read off bits 0..4: bit 4 for IsMoving, bit 0
\* for IsPowered
RefAnswer(op, bits) == IF op = "IsMoving" THEN bits >= 16 ELSE bits % 2 = 1

\* C23: getStatus returns a status word only when the payload between "=" and
\* the optional "{" decodes to exactly 2 bytes; for every other SC response
\* (no "=", a payload shorter or longer than 4 hex digits, digits that are
\* not hex) IsMoving and IsPowered return a decode error and no answer.
C23_StatusDecoded ==
    \A t \in Threads :
        StatusPolled(t) =>
            LET txt == payloadText(ghost[t].reply)
            IN  IF RefHasWord(txt)
                THEN ret[t] = Ret("ok", Nil, RefAnswer(args[t].op, RefLowBits(txt)))
                ELSE ret[t].kind = "err" /\ ret[t].err # Nil /\ ~ret[t].val

\* the responses getStatus slices within bounds: a "{" after the "=", or no
\* "{" and at least four characters after the "="
SlicedInRange(txt) ==
    \/ Index(txt, 61) = 0
    \/ Index(txt, 123) > Index(txt, 61)
    \/ Index(txt, 123) = 0 /\ Len(txt) >= Index(txt, 61) + 4

\* what holds of C23: on the responses sliced within bounds the answer is
\* decoded from the payload cut at four characters when there is no "{", and
\* is a decode error exactly when that is not four hex digits
StatusDecodedWhenSliced ==
    \A t \in Threads :
        (StatusPolled(t) /\ SlicedInRange(payloadText(ghost[t].reply))) =>
            LET txt == payloadText(ghost[t].reply)
                cut == IF Index(txt, 123) = 0 /\ Index(txt, 61) # 0
                       THEN SubSeq(txt, 1, Index(txt, 61) + 4) ELSE txt
            IN  IF RefHasWord(cut)
                THEN ret[t] = Ret("ok", Nil, RefAnswer(args[t].op, RefLowBits(cut)))
                ELSE ret[t].kind = "err" /\ ret[t].err # Nil /\ ~ret[t].val

\* IsMoving panicked on the response "SC=09"
StatusPanicked ==
    \E t \in Threads :
        /\ StatusPolled(t)
        /\ payloadText(ghost[t].reply) = <<83, 67, 61, 48, 57>>
        /\ ret[t].kind = "panic"

\* IsMoving answered from the response "SC=00091"
LongStatusAccepted ==
    \E t \in Threads :
        /\ StatusPolled(t)
        /\ payloadText(ghost[t].reply) = <<83, 67, 61, 48, 48, 48, 57, 49>>
        /\ ret[t].kind = "ok"

\* ------------------------------------------------------------------ C24
\* the whole number of steps next to -offset * stepsPerRev on the side of
\* zero
ResetSteps(offset) ==
    CHOOSE n \in -(3 * 200)..(3 * 200) :
        LET x == (-offset) * cfg.stepsPerRev
        IN  /\ (x >= 0 => n * Unit <= x /\ x < (n + 1) * Unit)
            /\ (x <= 0 => n * Unit >= x /\ x > (n - 1) * Unit)

\* a ResetZeroPosition of thread t that is under way or has returned
Resetting(t) == args[t].op = "ResetZeroPosition" /\ pc[t] \in {"rz_ep", "rz_sp", "done"}

\* C24: ResetZeroPosition(offset) writes one signed 32-bit step count,
\* -offset * stepsPerRev, first as EP<n> and then as SP<n>: what it has sent
\* is EP<n> alone or EP<n> followed by SP<n>; when it returned nil both round
\* trips succeeded, in that order, and the counter holds n; when the EP round
\* trip failed it returned that error and SP was never sent.
C24_ResetWritesBoth ==
    \A t \in Threads :
        Resetting(t) =>
            LET n == ResetSteps(args[t].offset)
                ep == CmdV("EP", n)
                sp == CmdV("SP", n)
            IN  /\ n >= Min32 /\ n <= Max32
                /\ log[t] \in { <<ep>>, <<ep, sp>> }
                /\ pc[t] = "rz_ep" => log[t] = <<ep>>
                /\ pc[t] = "rz_sp" => log[t] = <<ep, sp>>
                /\ (pc[t] = "done" /\ ret[t].kind = "ok") =>
                       log[t] = <<ep, sp>> /\ dev.pos = n
                /\ (pc[t] = "done" /\ ret[t].kind = "ok") => ghost[t].oks = <<TRUE, TRUE>>
                /\ (pc[t] # "rz_ep" /\ ~ghost[t].oks[1]) =>
                       pc[t] = "done" /\ log[t] = <<ep>> /\ ret[t] = ErrRet(Err("io", "EP"))

\* at 200 steps per revolution ResetZeroPosition(-0.75) returned nil after
\* EP150 and SP150, on a controller that was elsewhere
C24_Witness ==
    /\ cfg.stepsPerRev = 200
    /\ pc[Admin] = "done" /\ args[Admin].op = "ResetZeroPosition"
    /\ args[Admin].offset = -(3 * Unit) \div 4
    /\ ret[Admin].kind = "ok"
    /\ log[Admin] = <<CmdV("EP", 150), CmdV("SP", 150)>>
    /\ dev.pos = 150

\* a ResetZeroPosition whose EP round trip failed returned the error with
\* nothing sent after EP
ResetStoppedAtEP ==
    /\ pc[Admin] = "done" /\ args[Admin].op = "ResetZeroPosition"
    /\ ghost[Admin].oks = <<FALSE>>
    /\ ret[Admin] = ErrRet(Err("io", "EP"))
    /\ Len(log[Admin]) = 1

\* ------------------------------------------------------------------ C25
\* a DoCommand of thread t, given a string, that has returned
DidCommand(t) == pc[t] = "done" /\ args[t].op = "DoCommand" /\ args[t].isString

\* r is what the controller answers to command c, or the "?" it rejects it
\* with
IsAnswer(r, c) ==
    IF r.k = "?" THEN r = Reply("?", "", 0)
    ELSE LET a == DevHandle(dev, c).resp
         IN  r.k = a.k /\ r.name = a.name /\ r.v = a.v

\* C25: a DoCommand given a command string has sent that string, as given,
\* once and nothing else; it returns nil with the controller's answer to that
\* command when the send succeeded, and the send's error with the empty
\* response when it failed.
C25_DoCommandPassesThrough ==
    \A t \in Threads :
        DidCommand(t) =>
            /\ log[t] = <<args[t].command>>
            /\ Len(ghost[t].oks) = 1
            /\ IF ghost[t].oks[1]
               THEN /\ ret[t].kind = "ok" /\ ret[t].err = Nil
                    /\ IsAnswer(ret[t].val, args[t].command)
               ELSE /\ ret[t].kind = "err" /\ ret[t].err = Err("io", args[t].command.name)
                    /\ ret[t].val.k = ""

\* two DoCommands have returned, each with the answer to its own command:
\* the position to IP and the status word to SC
C25_Witness ==
    /\ DidCommand(Admin) /\ args[Admin].command = Cmd("IP")
    /\ ret[Admin].kind = "ok" /\ ret[Admin].val.name = "IP"
    /\ ret[Admin].val.v = Hex8(dev.pos)
    /\ DidCommand(Poller) /\ args[Poller].command = Cmd("SC")
    /\ ret[Poller].kind = "ok" /\ ret[Poller].val.name = "SC"
    /\ ret[Poller].val.v = StatusWord(dev)

\* a DoCommand whose send failed returned the error and an empty response
DoCommandFailed ==
    /\ DidCommand(Admin)
    /\ ret[Admin].kind = "err" /\ ret[Admin].err = Err("io", "IP")
    /\ ret[Admin].val.k = ""

\* ------------------------------------------------------------------ C26
\* the places in the log of t's operation of the commands whose round trip
\* failed, and of the stores the controller did not acknowledge
FailedAt(t) == { ghost[t].failed[i] : i \in 1..Len(ghost[t].failed) }
RefusedAt(t) ==
    { ghost[t].rejected[i] : i \in 1..Len(ghost[t].rejected) }
        \cap { i \in 1..Len(log[t]) : log[t][i].name = "VE" }

\* the error e holds the failure of the command at place i of t's log
Holds(e, t, i) == \E k \in 1..Len(e) : e[k].c = log[t][i].name

\* the command at place i of t's log is not written again after it
NotRewritten(t, i) == \A j \in (i + 1)..Len(log[t]) : log[t][j] # log[t][i]

\* C26: no retries. A command whose send or store failed is never written
\* again by the operation, and the operation returns an error that holds the
\* failure.
C26_NoRetries ==
    \A t \in Threads :
        \A i \in FailedAt(t) \cup RefusedAt(t) :
            /\ NotRewritten(t, i)
            /\ pc[t] = "done" => ret[t].kind = "err" /\ Holds(ret[t].err, t, i)

\* what holds of C26: the failed command is never written again, and the
\* operation returns an error; the error holds the failure unless the command
\* was the SK of a cancelled wait, whose error is dropped. The exception is a
\* failed AC or DE round trip of setOverrides, where the operation panics.
NoRewriteAfterFailure ==
    \A t \in Threads :
        \A i \in FailedAt(t) \cup RefusedAt(t) :
            /\ NotRewritten(t, i)
            /\ pc[t] = "done" =>
                   IF ret[t].kind = "panic"
                   THEN log[t][i].name \in {"AC", "DE"} /\ i = Len(log[t]) /\ ~ghost[t].started
                   ELSE /\ ret[t].kind = "err"
                        /\ Holds(ret[t].err, t, i)
                             \/ (log[t][i] = Cmd("SK") /\ ghost[t].sawCancel)

\* a move ended in a panic after the AC query of its override failed
FailedOverridePanics ==
    \E t \in Movers :
        /\ pc[t] = "done" /\ ret[t].kind = "panic"
        /\ FailedAt(t) = {Len(log[t])}
        /\ log[t][Len(log[t])] = Cmd("AC")

\* a move whose SC poll failed returned the error after writing back AC
FailedPollReturned ==
    \E t \in Movers :
        /\ pc[t] = "done" /\ ret[t].kind = "err"
        /\ \E i \in FailedAt(t) : log[t][i] = Cmd("SC") /\ i < Len(log[t])

\* a cancelled move returned the cancellation alone after its SK failed
FailedStopDropped ==
    \E t \in Movers :
        /\ pc[t] = "done" /\ ret[t].kind = "err"
        /\ \E i \in FailedAt(t) : log[t][i] = Cmd("SK") /\ ~Holds(ret[t].err, t, i)

\* ------------------------------------------------------------------ C27
OtherKey(k) == IF k = "acc" THEN "dec" ELSE "acc"

\* the aggregate e has the error "what" of key or command c
HasErr(e, what, c) == \E i \in 1..Len(e) : e[i] = [e |-> what, c |-> c]

\* t's move was given a non-float64 value for key k and has entered
\* setOverrides
MalformedFor(t, k) ==
    /\ args[t].op \in {"GoFor", "GoTo"}
    /\ args[t].extra[k].kind = "bad"
    /\ pc[t] \in MovePcs \cup {"done"}
    /\ pc[t] # "mv_sj"
    /\ 1 \notin FailedAt(t)

\* setOverrides has returned to t's move with key k malformed: its snapshot
\* field is 0, its error is in the aggregate, and the other key, when it is a
\* float64, has been written to the controller and its old value captured
PartialSnapshot(t, k) ==
    LET o == OtherKey(k)
    IN  /\ loc[t].os[k] = 0
        /\ HasErr(loc[t].err, "malformed", k)
        /\ loc[t].extra[o].kind = "f64" =>
               /\ log[t] = <<Cmd("SJ"), Cmd(KeyCmd(o)), storeText(KeyCmd(o), loc[t].extra[o].v)>>
               /\ DevReg(o) = Fmt4(loc[t].extra[o].v)
               /\ loc[t].os[o] = ghost[t].prior[o]
        /\ loc[t].extra[o].kind = "bad" => HasErr(loc[t].err, "malformed", o)
        /\ loc[t].extra[o].kind = "absent" => loc[t].os[o] = 0 /\ log[t] = <<Cmd("SJ")>>

\* C27: with a non-float64 value for one key, setOverrides still processes
\* the other key and returns: the malformed key's snapshot field is 0, the
\* other key's override is written and its old value captured, and the
\* returned aggregate holds every per-key error.
C27_MalformedKeyIsolated ==
    \A t \in Movers : \A k \in Keys :
        MalformedFor(t, k) =>
            /\ pc[t] = "mv_cfg" => PartialSnapshot(t, k)
            /\ pc[t] = "done" => ret[t] = ErrRet(loc[t].err) /\ PartialSnapshot(t, k)

\* what holds of C27: the same, for the setOverrides whose round trips for
\* the other key all succeed (what the controller answers to SJ is not looked
\* at); when one of them fails or is answered "?", setOverrides does not
\* return and the move panics
MalformedKeyIsolatedUnlessPanic ==
    \A t \in Movers : \A k \in Keys :
        MalformedFor(t, k) =>
            /\ pc[t] = "mv_cfg" => PartialSnapshot(t, k)
            /\ pc[t] = "done" =>
                   IF \A i \in 2..Len(log[t]) :
                          i \notin FailedAt(t) /\ (\A j \in 1..Len(ghost[t].rejected) : ghost[t].rejected[j] # i)
                   THEN ret[t] = ErrRet(loc[t].err) /\ PartialSnapshot(t, k)
                   ELSE ret[t].kind = "panic"

\* setOverrides returned with acceleration malformed and deceleration
\* overridden and captured
MalformedKeptOther ==
    \E t \in Movers :
        /\ MalformedFor(t, "acc") /\ pc[t] = "mv_cfg"
        /\ loc[t].extra.dec.kind = "f64"
        /\ loc[t].os.dec # 0 /\ DevReg("dec") # ghost[t].prior.dec
        /\ loc[t].err = Err("malformed", "acc")

\* a move with acceleration malformed panicked in the override of
\* deceleration
MalformedThenPanic ==
    \E t \in Movers :
        /\ MalformedFor(t, "acc") /\ pc[t] = "done"
        /\ ret[t].kind = "panic"
        /\ log[t][Len(log[t])].name = "DE"

\* ------------------------------------------------------------------ C28
\* the write-backs restore owes for the snapshot os: AC when the
\* acceleration was captured, then DE when the deceleration was
WriteBacks(os) ==
    (IF os.acc # 0 THEN <<storeText("AC", os.acc)>> ELSE <<>>)
        \o (IF os.dec # 0 THEN <<storeText("DE", os.dec)>> ELSE <<>>)

\* the place in t's log of the j-th write-back of its restore
BackAt(t, j) == Len(log[t]) - Len(WriteBacks(loc[t].os)) + j

\* the store at place i of t's log failed: its round trip did, or the
\* controller answered "?"
StoreFailed(t, i) ==
    \/ i \in FailedAt(t)
    \/ \E j \in 1..Len(ghost[t].rejected) : ghost[t].rejected[j] = i

\* t's move has returned from restore
RestoreOver(t) == MoveDone(t) /\ ghost[t].restoreCalled

\* C28: a move that has returned from restore has sent, as its last
\* commands, the write-back of every captured field, AC before DE, whatever
\* became of the other; the error it returns holds the failure of each
\* write-back that failed and of no write-back that succeeded. (SJ and the
\* four commands of setOverrides come first in the log; no other AC or DE
\* command follows them.)
C28_RestoreAggregates ==
    \A t \in Movers :
        RestoreOver(t) =>
            LET wb == WriteBacks(loc[t].os)
            IN  /\ Len(log[t]) >= Len(wb)
                /\ \A j \in 1..Len(wb) :
                     /\ log[t][BackAt(t, j)] = wb[j]
                     /\ StoreFailed(t, BackAt(t, j)) =
                            (\E i \in 1..Len(ret[t].err) :
                                 /\ ret[t].err[i].c = wb[j].name
                                 /\ ret[t].err[i].e \in {"io", "nonack"})
                /\ \A i \in 6..(Len(log[t]) - Len(wb)) : log[t][i].name \notin {"AC", "DE"}

\* a move whose AC write-back failed went on to write DE back and returned
\* the AC failure
C28_Witness ==
    \E t \in Movers :
        /\ RestoreOver(t)
        /\ Len(WriteBacks(loc[t].os)) = 2
        /\ StoreFailed(t, Len(log[t]) - 1)
        /\ ~StoreFailed(t, Len(log[t]))
        /\ DevReg("dec") = loc[t].os.dec
        /\ ret[t].kind = "err" /\ HasErr(ret[t].err, "io", "AC")

\* ------------------------------------------------------------------ C29
\* t's move holds the coarse lock or has returned
MoveEntered(t) == args[t].op \in {"GoFor", "GoTo"} /\ pc[t] \in MovePcs \cup {"done"}

\* the names of the commands t's operation has sent
Sent(t) == { log[t][i].name : i \in 1..Len(log[t]) }

\* C29: a move sends no AC command when its extras have no acceleration, no
\* DE command when they have no deceleration, and never an AM command; with
\* neither key the controller's acceleration and deceleration are, all
\* through the move and after it, what they were when it began.
C29_AbsentKeysSendNothing ==
    \A t \in Movers :
        MoveEntered(t) =>
            /\ "AM" \notin Sent(t)
            /\ \A k \in Keys : args[t].extra[k].kind = "absent" => KeyCmd(k) \notin Sent(t)
            /\ (\A k \in Keys : args[t].extra[k].kind = "absent") =>
                   \A k \in Keys : DevReg(k) = ghost[t].prior[k]

\* a move without extras ran to its end on a controller with both registers
\* set, sent no AC, DE or AM command and left the registers as they were
C29_Witness ==
    \E t \in Movers :
        /\ MoveDone(t) /\ ret[t].kind = "ok" /\ ghost[t].started
        /\ args[t].extra = NoExtra
        /\ Sent(t) \cap {"AC", "DE", "AM"} = {}
        /\ dev.AC = 100 * Unit /\ dev.DE = 100 * Unit

\* a move with the deceleration alone has overridden and restored DE and
\* sent no AC command
OnlyDecelerationSent ==
    \E t \in Movers :
        /\ MoveDone(t) /\ ret[t].kind = "ok" /\ ghost[t].started
        /\ args[t].extra.acc = Absent /\ args[t].extra.dec.kind = "f64"
        /\ "DE" \in Sent(t) /\ "AC" \notin Sent(t)
        /\ dev.AC = ghost[t].prior.acc

\* ------------------------------------------------------------------ C30
\* t is inside waitForMoveCommandToComplete
InWait(t) == pc[t] \in {"wait_sel", "wait_bs", "wait_sc", "wait_sk"}

\* the controller has nothing queued and is not moving: it reports depth 63
\* and the moving bit clear from now on
AtRest == ~dev.queued /\ ~dev.moving

\* the wait of t stands at its select with the polls of the model used up
Exhausted(t) == pc[t] = "wait_sel" /\ ~cancelled[t] /\ loc[t].polls = MaxPolls

\* the wait has returned only for one of its three reasons: a full poll
\* that saw depth 63 and the moving bit clear, a cancellation it saw, or a
\* poll that failed
ReturnedForCause(t) ==
    WaitOver(t) =>
        \/ /\ loc[t].waitErr = Nil
           /\ ghost[t].lastBS = EmptyDepth /\ (ghost[t].lastSC \div (2 ^ MovingBit)) % 2 = 0
           /\ ghost[t].bsIter = loc[t].polls /\ ghost[t].scIter = loc[t].polls
        \/ loc[t].waitErr = CancelErr /\ ghost[t].sawCancel
        \/ loc[t].waitErr \in {Err("io", "BS"), Err("io", "SC")}

\* C30: with every round trip returning, a wait whose context is cancelled
\* returns, and a wait on a controller at rest returns (within the polls of
\* the model); a wait returns only on completion, cancellation or a failed
\* poll, and until then each select is followed by another poll.
C30_WaitTerminates ==
    /\ [](ReturnedForCause(Mover))
    /\ (InWait(Mover) /\ cancelled[Mover]) ~> WaitOver(Mover)
    /\ (InWait(Mover) /\ AtRest) ~> (WaitOver(Mover) \/ Exhausted(Mover))
    /\ (pc[Mover] = "wait_sel" /\ ~cancelled[Mover] /\ ~Exhausted(Mover))
           ~> (pc[Mover] = "wait_bs" \/ cancelled[Mover])

\* a wait that had polled a move in progress once was cancelled, sent SK
\* and returned the cancellation
C30_Witness ==
    \E t \in Movers :
        /\ WaitOver(t)
        /\ loc[t].polls = 1 /\ (ghost[t].lastSC \div (2 ^ MovingBit)) % 2 = 1
        /\ ghost[t].sawCancel /\ ghost[t].sk = 1
        /\ loc[t].waitErr = CancelErr

\* a wait returned nil at its second poll, the controller having come to
\* rest after the first
WaitEndedAtRest ==
    \E t \in Movers :
        /\ WaitOver(t) /\ loc[t].waitErr = Nil
        /\ loc[t].polls = 2 /\ AtRest /\ ~cancelled[t]

\* ------------------------------------------------------------------ C31
\* the places in t's log, after setOverrides, of the commands named c
LaterPlaces(t, c) == { i \in 6..Len(log[t]) : log[t][i].name = c }

\* C31: a move that has returned from restore sent no write-back for a
\* snapshot field that is 0 and one write-back, of the snapshot's value, for
\* a field that is not; so where the override reached a controller whose
\* register was 0 the register still holds the overriding value, and where
\* the snapshot is not 0 it is the register's prior value, which the register
\* holds again unless the write-back failed.
C31_ZeroSnapshotNotRestored ==
    \A t \in Movers : \A k \in Keys :
        RestoreOver(t) =>
            /\ loc[t].os[k] = 0 => LaterPlaces(t, KeyCmd(k)) = {}
            /\ (ghost[t].wrote[k] /\ ghost[t].prior[k] = 0) =>
                   /\ loc[t].os[k] = 0
                   /\ DevReg(k) = Fmt4(loc[t].extra[k].v)
                   /\ DevReg(k) # ghost[t].prior[k]
            /\ loc[t].os[k] # 0 =>
                   /\ loc[t].os[k] = ghost[t].prior[k]
                   /\ \E i \in LaterPlaces(t, KeyCmd(k)) :
                          /\ LaterPlaces(t, KeyCmd(k)) = {i}
                          /\ log[t][i] = storeText(KeyCmd(k), loc[t].os[k])
                          /\ ~StoreFailed(t, i) => DevReg(k) = ghost[t].prior[k]

\* a move overrode the acceleration of a controller whose acceleration was 0
\* and its deceleration, which was not, and returned without an error: the
\* deceleration is as before, the acceleration is the override's
C31_Witness ==
    \E t \in Movers :
        /\ RestoreOver(t) /\ ret[t].kind = "ok"
        /\ ghost[t].wrote.acc /\ ghost[t].prior.acc = 0 /\ dev.AC # 0
        /\ ghost[t].wrote.dec /\ ghost[t].prior.dec # 0 /\ dev.DE = ghost[t].prior.dec

\* ------------------------------------------------------------------ C32
\* the places of the SK commands in t's log
StopPlaces(t) == { i \in 1..Len(log[t]) : log[t][i] = Cmd("SK") }

\* the error e holds the cancellation error
HasCancel(e) == \E i \in 1..Len(e) : <<e[i]>> = CancelErr

\* C32: a move returns the cancellation error only from a wait whose select
\* saw the cancelled ctx and sent SK. That SK is the one SK of the move, sent
\* while the ctx was cancelled, after the move-start command and before every
\* write-back of restore; while it is on the wire the move has not returned;
\* and unless its round trip failed or the controller refused it the
\* controller is halted with an empty queue from then until the move returns.
C32_StopBeforeCancelError ==
    \A t \in Movers :
        /\ pc[t] = "wait_sk" =>
               /\ cancelled[t] /\ ret[t] = NoRet
               /\ StopPlaces(t) = {Len(log[t])}
        /\ (MoveDone(t) /\ HasCancel(ret[t].err)) =>
               WaitOver(t) /\ loc[t].waitErr = CancelErr
        /\ (WaitOver(t) /\ loc[t].waitErr = CancelErr) =>
               /\ ghost[t].sawCancel /\ cancelled[t]
               /\ \E i \in StopPlaces(t) :
                      /\ StopPlaces(t) = {i}
                      /\ i > 1 /\ log[t][i - 1].name \in {"FL", "FP", "BS", "SC"}
                      /\ \A j \in LaterPlaces(t, "AC") \cup LaterPlaces(t, "DE") : j > i
                      /\ ~StoreFailed(t, i) => (~dev.moving /\ ~dev.queued)

\* a cancelled move sent SK, then wrote both snapshot values back, and
\* returned the cancellation error alone
C32_Witness ==
    \E t \in Movers :
        /\ MoveDone(t) /\ ret[t].err = CancelErr
        /\ \E i \in StopPlaces(t) : ~StoreFailed(t, i) /\ Len(log[t]) = i + 2
        /\ LaterPlaces(t, "AC") # {} /\ LaterPlaces(t, "DE") # {}

\* ------------------------------------------------------------------ C33
\* a step of t's move after it has taken the coarse lock
MoveStep(t) ==
    \/ MoveAfterSJ(t)
    \/ \E k \in Keys : OverrideKey(t, k) \/ OverrideQueried(t, k) \/ OverrideStored(t, k)
    \/ MoveConfigure(t) \/ MoveAfterDI(t) \/ MoveAfterVE(t) \/ MoveAfterStart(t)
    \/ WaitSelect(t) \/ WaitStopped(t) \/ WaitAfterBS(t) \/ WaitAfterSC(t)
    \/ RestoreAcc(t) \/ RestoredAcc(t) \/ RestoreDec(t) \/ RestoredDec(t)
    \/ commSendWrite(t) \/ commSendRead(t)

\* t's move can take its next step now, or waits only for the round trip
\* another thread has in progress on the session, or has made the polls the
\* model allows a wait
MoveNotBlocked(t) ==
    \/ ENABLED MoveStep(t)
    \/ /\ snd[t].phase = "write"
       /\ \E u \in Threads \ {t} : cmu[snd[t].sess] = u /\ ENABLED commSendRead(u)
    \/ pc[t] = "wait_sel" /\ ~cancelled[t] /\ loc[t].polls = MaxPolls

\* C33: a move holds the coarse lock from its first command to its return
\* and none of its steps, the polls and the stop of its wait among them,
\* waits for that lock; a thread that is not in an operation holds neither
\* lock; the coarse lock is held only by a move in progress and a transport
\* lock only by a thread between the write and the read of a send; and a
\* caller waiting for a free coarse lock can take it.
C33_LocksReleased ==
    /\ \A t \in Movers : InMove(t) => (mu = t /\ MoveNotBlocked(t))
    /\ \A t \in Threads :
           pc[t] \in {"idle", "done", "mv_lock"} =>
               (mu # t /\ \A s \in Sessions : cmu[s] # t)
    /\ mu # None => (mu \in Movers /\ InMove(mu))
    /\ \A s \in Sessions :
           cmu[s] # None => (snd[cmu[s]].phase = "read" /\ snd[cmu[s]].sess = s)
    /\ \A t \in Movers : (pc[t] = "mv_lock" /\ mu = None) => ENABLED MoveLock(t)

\* after the first caller's move was cancelled in its wait and returned the
\* cancellation error, the second caller holds the coarse lock and polls
C33_Witness ==
    /\ MoveDone("m1") /\ HasCancel(ret["m1"].err)
    /\ InMove("m2") /\ pc["m2"] = "wait_sc" /\ mu = "m2"
    /\ \E s \in Sessions : cmu[s] = "m2"

\* a move that panicked in setOverrides has unwound with both locks free
LocksFreeAfterPanic ==
    \E t \in Movers :
        /\ MoveDone(t) /\ ret[t].kind = "panic"
        /\ mu = None /\ \A s \in Sessions : cmu[s] = None

\* ------------------------------------------------------------------ C34
\* the position t's move was sent to: the DI of its log, as a distance from
\* where the controller was for GoFor and as a position for GoTo
Target(t) ==
    LET i == CHOOSE j \in 1..Len(log[t]) : log[t][j].name = "DI"
    IN  IF args[t].op = "GoFor" THEN Add32(ghost[t].pos0, log[t][i].arg) ELSE log[t][i].arg

\* a Stop from outside (every call of the poller is one here) reached the
\* controller after t's move took the lock: a call that had not returned
\* then has returned since, or has had its SK delivered
StopSince(t) ==
    \E k \in 1..calls[Poller] :
        /\ <<Poller, k>> \notin ghost[t].seen
        /\ k < calls[Poller] \/ pc[Poller] = "done" \/ snd[Poller].dl

\* the next step of the poller's Stop can be taken now, or waits only for
\* the round trip another thread has in progress on the session
StopNotBlocked ==
    \/ ENABLED commSendWrite(Poller)
    \/ ENABLED commSendRead(Poller)
    \/ ENABLED StopDone(Poller)
    \/ /\ snd[Poller].phase = "write"
       /\ \E u \in Threads \ {Poller} : cmu[snd[Poller].sess] = u /\ ENABLED commSendRead(u)

\* C34: Stop never holds or waits for the coarse lock: it can be called and
\* can proceed whoever holds that lock. A move whose start command was
\* acknowledged returns nil, after a poll that read depth 63 and a clear
\* moving bit, also when it has not reached the position it was sent to; it
\* has not only where a Stop from outside reached the controller after the
\* move took the lock, and then the controller is where it was.
C34_ExternalStopSilent ==
    /\ mu # Poller
    /\ CanCall(Poller) => ENABLED Stop(Poller)
    /\ pc[Poller] = "st_sk" => StopNotBlocked
    /\ \A t \in Movers :
           (MoveDone(t) /\ ghost[t].started) =>
               /\ ret[t] = Ret("ok", Nil, FALSE)
               /\ ghost[t].lastBS = EmptyDepth
               /\ (ghost[t].lastSC \div (2 ^ MovingBit)) % 2 = 0
               /\ dev.pos # Target(t) => (StopSince(t) /\ dev.pos = ghost[t].pos0)

\* Stop was called and returned while a GoFor was waiting; the GoFor then
\* returned nil with the controller where it was before the move
C34_Witness ==
    /\ MoveDone(Mover) /\ args[Mover].op = "GoFor" /\ ghost[Mover].started
    /\ ret[Mover].kind = "ok"
    /\ dev.pos = ghost[Mover].pos0 /\ dev.pos # Target(Mover)
    /\ pc[Poller] = "done" /\ args[Poller].op = "Stop" /\ ret[Poller].kind = "ok"
    /\ <<Poller, calls[Poller]>> \notin ghost[Mover].seen

\* ------------------------------------------------------------------ C35
\* t is in an operation that does not take the coarse lock
Bypassing(t) == args[t].op \in {"IsMoving", "IsPowered", "Stop"} /\ pc[t] \notin {"idle", "done"}

\* a Reconfigure is between taking the coarse lock and returning
Reconfiguring == args[Admin].op = "Reconfigure" /\ mu = Admin

\* C35: every send of an operation that bypasses the coarse lock is entered
\* on a session, not on nil, and the session's handle is open when the send
\* writes and still open when it reads.
C35_BypassOnOpenSession ==
    \A t \in Threads :
        Bypassing(t) =>
            /\ snd[t].phase # "nil"
            /\ snd[t].phase \in {"write", "read"} => handle[snd[t].sess] = "open"

\* what holds instead: a status query returns a value only when no part of
\* its round trip failed, and that value is the controller's motion when it
\* answered; on a nil session it panics, on a closed one it returns the
\* error of the send
BypassFailuresSurface ==
    \A t \in Threads :
        (pc[t] = "done" /\ args[t].op = "IsMoving") =>
            /\ ret[t].kind \in {"ok", "err", "panic"}
            /\ (ret[t].kind = "err") = (ghost[t].failed # <<>>)
            /\ ret[t].kind = "ok" => ret[t].val = ghost[t].devMoving

\* IsMoving read s.comm after Reconfigure had set it to nil and before the
\* new session was stored
NilDuringReconfigure ==
    /\ Bypassing(Poller) /\ snd[Poller].phase = "nil"
    /\ Reconfiguring /\ pc[Admin] = "rc_open"

\* Reconfigure closed the session between the write and the read of
\* IsMoving's send
ClosedBetweenWriteAndRead ==
    /\ Bypassing(Poller) /\ snd[Poller].phase = "read"
    /\ handle[snd[Poller].sess] = "closed"
    /\ Reconfiguring

\* IsMoving entered send on the session Reconfigure has since closed and
\* replaced
StaleSessionAfterReconfigure ==
    /\ Bypassing(Poller) /\ snd[Poller].phase = "write"
    /\ handle[snd[Poller].sess] = "closed"
    /\ comm # NoComm /\ comm # snd[Poller].sess /\ handle[comm] = "open"

\* ------------------------------------------------------------------ C36
\* the select of t's wait saw a ctx that was cancelled before the wait began
\* (a ctx is cancelled once)
SeenEarly(t) == ghost[t].sawCancel /\ ~ghost[t].cancelInWait

\* the polls in t's log
PollPlaces(t) == { i \in 1..Len(log[t]) : log[t][i].name \in {"BS", "SC"} }

\* C36: a move sends SK only from its wait, after SJ, the override commands,
\* DI, VE and the start command, and sends no poll after it; it returns the
\* cancellation error only after all of these. No poll is on its way under a
\* ctx that was cancelled before the wait began: the first select of such a
\* move sees the cancellation, and the move has then sent exactly the setup
\* commands and SK next, without a poll, and returns the cancellation error.
C36_CancelSeenOnlyInWait ==
    \A t \in Movers :
        LET H == SetupShape(args[t])
        IN  /\ (InMove(t) \/ MoveDone(t)) =>
                   \A i \in StopPlaces(t) :
                       /\ i > Len(H)
                       /\ \A j \in 1..Len(H) : Shape(log[t][j]) = H[j]
                       /\ \A j \in PollPlaces(t) : j < i
            /\ (MoveDone(t) /\ HasCancel(ret[t].err)) => StopPlaces(t) # {}
            /\ (pc[t] \in {"wait_bs", "wait_sc"} /\ cancelled[t]) => ghost[t].cancelInWait
            /\ SeenEarly(t) =>
                   /\ StopPlaces(t) = {Len(H) + 1}
                   /\ PollPlaces(t) = {}
                   /\ WaitOver(t) => loc[t].waitErr = CancelErr
                   /\ MoveDone(t) => HasCancel(ret[t].err)

\* a GoTo with both overrides whose ctx was cancelled before its wait sent
\* its eight setup commands, SK next, and returned the cancellation error
C36_Witness ==
    \E t \in Movers :
        /\ MoveDone(t) /\ args[t].op = "GoTo" /\ SeenEarly(t)
        /\ Len(SetupShape(args[t])) = 8
        /\ Len(log[t]) >= 9 /\ log[t][9] = Cmd("SK")
        /\ HasCancel(ret[t].err)

\* the ctx is cancelled while the move waits for the coarse lock
CancelledBeforeLock == \E t \in Movers : pc[t] = "mv_lock" /\ cancelled[t]

\* ------------------------------------------------------------------ C37
\* t's wait is over and not by a cancellation or a completed move: its last
\* poll failed, the round trip or the decoding of the reply (the reply is
\* kept where getStatus gave neither a status nor an error)
PollFailed(t) ==
    /\ ghost[t].started /\ ~ghost[t].sawCancel
    /\ pc[t] \in {"rs_acc", "rs_acc_s", "rs_dec", "rs_dec_s", "done"}
    /\ loc[t].waitErr # Nil \/ ghost[t].reply.k = "text"

\* C37: a wait whose BS or SC poll failed has returned the poll's error and
\* sent no SK; the move then enters restore and returns an error that begins
\* with the poll's.
C37_PollErrorEndsWait ==
    \A t \in Movers :
        PollFailed(t) =>
            /\ loc[t].waitErr # Nil
            /\ StopPlaces(t) = {}
            /\ pc[t] = "done" =>
                   /\ ghost[t].restoreCalled
                   /\ ret[t].kind = "err"
                   /\ SubSeq(ret[t].err, 1, Len(loc[t].waitErr)) = loc[t].waitErr

\* what holds of C37: it holds of every failed poll but an SC reply that
\* getStatus slices out of range, on which the move panics
PollErrorEndsWaitWhenSliced ==
    \A t \in Movers :
        PollFailed(t) =>
            IF ghost[t].reply.k = "text"
            THEN /\ ~SlicedInRange(payloadText(ghost[t].reply))
                 /\ pc[t] = "done" /\ ret[t].kind = "panic"
                 /\ ~ghost[t].restoreCalled /\ StopPlaces(t) = {}
            ELSE /\ loc[t].waitErr # Nil
                 /\ StopPlaces(t) = {}
                 /\ pc[t] = "done" =>
                        /\ ghost[t].restoreCalled
                        /\ ret[t].kind = "err"
                        /\ SubSeq(ret[t].err, 1, Len(loc[t].waitErr)) = loc[t].waitErr

\* a move whose SC poll was answered "SC=09" panicked in the wait: no SK, no
\* restore, the overridden acceleration still in the controller
PollPanicSkipsRestore ==
    \E t \in Movers :
        /\ PollFailed(t) /\ ret[t].kind = "panic"
        /\ payloadText(ghost[t].reply) = <<83, 67, 61, 48, 57>>
        /\ ghost[t].wrote.acc /\ dev.AC # ghost[t].prior.acc

\* a move whose SC poll was answered with digits that are not hexadecimal
\* returned the decode error after restore, the controller still moving
PollErrorLeavesMoving ==
    \E t \in Movers :
        /\ PollFailed(t) /\ pc[t] = "done" /\ loc[t].waitErr = Err("hex", "SC")
        /\ ret[t].err = loc[t].waitErr /\ ghost[t].restoreCalled
        /\ dev.moving /\ dev.AC = ghost[t].prior.acc

\* ------------------------------------------------------------------ C38
\* the owner's latest call is a Reconfigure that returned getComm's error
ReconfigureFailedToOpen ==
    /\ pc[Admin] = "done" /\ args[Admin].op = "Reconfigure"
    /\ ret[Admin].kind = "err"
    /\ ret[Admin].err \in {Err("open", ""), Err("unsupported comm type", ""),
                           Err("unknown comm type", "")}

\* what such a Reconfigure leaves: no session, no open handle, and the
\* stepsPerRev of the configuration it was given
LeftWithoutSession ==
    /\ comm = NoComm
    /\ \A s \in Sessions : handle[s] # "open"
    /\ cfg.stepsPerRev = args[Admin].conf.stepsPerRev

\* this step makes t enter comms.send with a command
Issues(t) == snd[t].phase \in {"idle", "ret"} /\ snd'[t].phase \in {"write", "nil"}

\* a step taken while s.comm is nil: a send entered other than Reconfigure's
\* own finds no session and nothing reaches the controller, a send that found
\* none ends its operation in a panic, and only a getComm that succeeds in
\* Reconfigure installs a session
StepWithoutSession ==
    /\ \A t \in Threads :
           (Issues(t) /\ pc[t] # "rc_open") => snd'[t].phase = "nil" /\ dev' = dev
    /\ \A t \in Threads :
           (snd[t].phase = "nil" /\ pc'[t] # pc[t]) =>
               pc'[t] = "done" /\ ret'[t].kind = "panic"
    /\ comm' # NoComm =>
           /\ pc[Admin] = "rc_open" /\ args[Admin].op = "Reconfigure"
           /\ getComm(args[Admin].conf) = Nil
           /\ handle'[comm'] = "open"

\* C38: a Reconfigure whose getComm failed returns with the old session
\* closed, s.comm nil and stepsPerRev overwritten; and while s.comm is nil
\* every operation that sends finds no session, until a Reconfigure opens one.
C38_NoRollback ==
    [][ /\ ReconfigureFailedToOpen' => LeftWithoutSession'
        /\ comm = NoComm => StepWithoutSession ]_vars

\* after the owner's first call, a Reconfigure that failed to open, only
\* stepsPerRev of the configuration has changed, and a GoFor begun after it
\* returned has panicked on its first command with the controller untouched
C38_Witness ==
    /\ ReconfigureFailedToOpen /\ calls[Admin] = 1
    /\ comm = NoComm /\ handle[1] = "closed"
    /\ cfg = [Cfg0 EXCEPT !.stepsPerRev = 4]
    /\ pc[Mover] = "done" /\ <<Admin, 1>> \in ghost[Mover].seen
    /\ ret[Mover].kind = "panic" /\ log[Mover] = <<Cmd("SJ")>>
    /\ dev = DevIdle(100 * Unit, 100 * Unit)

\* a Reconfigure that succeeded after one that failed: operations work again
ReconfigureRecovers ==
    /\ calls[Admin] = 2 /\ pc[Admin] = "done" /\ args[Admin].op = "Reconfigure"
    /\ ret[Admin].kind = "ok" /\ comm = 2 /\ handle[1] = "closed" /\ handle[2] = "open"
    /\ cfg.rpmLimits.max = 600
    /\ pc[Poller] = "done" /\ ret[Poller].kind = "ok" /\ args[Poller].op = "IsMoving"

\* Close after a Reconfigure that failed panics on the nil session
CloseWithoutSession ==
    /\ calls[Admin] = 2 /\ pc[Admin] = "done" /\ args[Admin].op = "Close"
    /\ ret[Admin].kind = "panic" /\ comm = NoComm /\ handle[1] = "closed"

\* ------------------------------------------------------------------ C39
\* the places in t's log of the round trips of setOverrides for key k whose
\* send failed: the query or the store of k's command, before any DI
OverrideFailures(t, k) ==
    { i \in FailedAt(t) : /\ log[t][i].name = KeyCmd(k)
                          /\ \A j \in 1..i : log[t][j].name # "DI" }

\* the closure of setOverrides for key k has come back from a replaceValue
\* whose query or store failed
OverrideFailed(t, k) ==
    /\ args[t].op \in {"GoFor", "GoTo"}
    /\ OverrideFailures(t, k) # {}
    /\ pc[t] \notin {OvQueryPc(k), OvStorePc(k)}

\* C39: a transport failure in the query or the store of an override leaves
\* the key's snapshot field 0 and its error in the aggregate, and
\* setOverrides goes on: the move does not panic, the other key is processed
\* and the move returns the aggregate.
C39_OverrideFailureReturned ==
    \A t \in Movers : \A k \in Keys :
        OverrideFailed(t, k) =>
            /\ ret[t].kind # "panic"
            /\ loc[t].os[k] = 0
            /\ \A i \in OverrideFailures(t, k) : Holds(loc[t].err, t, i)
            /\ (k = "acc" /\ loc[t].extra.dec.kind = "f64" /\ pc[t] \in {"mv_cfg", "done"}) =>
                   \E j \in 1..Len(log[t]) : log[t][j] = Cmd("DE")
            /\ pc[t] = "done" => ret[t] = ErrRet(loc[t].err)

\* what holds of C39: such a failure ends the move in a panic at that round
\* trip, with nothing sent after it, the other key not processed when it
\* comes second, no snapshot and no aggregate, and the locks released
OverrideFailurePanics ==
    \A t \in Movers : \A k \in Keys :
        OverrideFailed(t, k) =>
            /\ pc[t] = "done" /\ ret[t].kind = "panic"
            /\ OverrideFailures(t, k) = {Len(log[t])}
            /\ ret[t].err = Nil /\ ~ghost[t].restoreCalled
            /\ k = "acc" => \A j \in 1..Len(log[t]) : log[t][j].name # "DE"
            /\ mu # t /\ \A s \in Sessions : cmu[s] # t

\* the store of the overriding acceleration reached the controller and its
\* read failed: the move panicked and the register keeps the override
OverrideLeftAfterPanic ==
    \E t \in Movers :
        /\ OverrideFailed(t, "acc") /\ pc[t] = "done" /\ ret[t].kind = "panic"
        /\ log[t][Len(log[t])].has /\ ghost[t].wrote.acc
        /\ loc[t].extra.dec.kind = "f64"
        /\ DevReg("acc") = Fmt4(loc[t].extra.acc.v) /\ DevReg("acc") # ghost[t].prior.acc

\* the query of the deceleration failed after the acceleration was
\* overridden: the move panicked with the acceleration left overridden
SecondKeyFailurePanics ==
    \E t \in Movers :
        /\ OverrideFailed(t, "dec") /\ pc[t] = "done" /\ ret[t].kind = "panic"
        /\ log[t][Len(log[t])] = Cmd("DE")
        /\ loc[t].os.acc # 0 /\ DevReg("acc") # loc[t].os.acc

====
